---- MODULE Spec2Model ----
(***************************************************************************)
(* The signing core of ledger-app-tezos: baking_auth.c (persistent baking  *)
(* authorization and high-water mark), apdu_sign.c (packet framer, hasher, *)
(* sign completion for the BAKING_APP and the wallet build) and main.c     *)
(* (the command loop with its inline INS_SIGN / INS_RESET handlers).       *)
(*                                                                         *)
(* A build links one signing dispatcher: main.c's inline INS_SIGN handler  *)
(* working on operationContext, or apdu_sign.c's handle_apdu working on G  *)
(* (compiled with or without BAKING_APP).  All builds share baking_auth.c  *)
(* and the persistent record N_data.                                       *)
(***************************************************************************)
EXTENDS Integers, Sequences, FiniteSets, TLC

(***************************************************************************)
(* Bounds of the model.                                                    *)
(***************************************************************************)
\* Levels 0..MaxLevel are offered in block / endorsement payloads.
MaxLevel == 1
\* apdu_sign.c: data packets accepted per session before the model stops
\* feeding more.
MaxPackets == 2
\* The length of the long message the hasher is fed in pieces.
StreamLen == 300

(***************************************************************************)
(* Program constants.                                                      *)
(***************************************************************************)
B2B_BLOCKBYTES == 128
P1_FIRST == 0
P1_NEXT == 1
P1_HASH_ONLY_NEXT == 3
P1_LAST_MARKER == 128
TEZOS_BUFSIZE == 1024
PACKET_INDEX_MAX == 255
\* protocol.h / apdu.h / keys.h are not part of the sources at hand.
MAGIC_BYTE_INVALID == 0
MAGIC_BYTE_BLOCK == 1
MAGIC_BYTE_BAKING_OP == 2
MAGIC_BYTE_UNSAFE_OP == 3
MAGIC_BYTE_UNSAFE_OP2 == 4
MAGIC_BYTE_UNSAFE_OP3 == 5
MAX_BIP32_PATH == 10
MAX_APDU_SIZE == 230
OPERATION_TAG_NONE == 255
OPERATION_TAG_PROPOSAL == 5
OPERATION_TAG_BALLOT == 6
OPERATION_TAG_ATHENS_REVEAL == 7
OPERATION_TAG_ATHENS_TRANSACTION == 8
OPERATION_TAG_ATHENS_ORIGINATION == 9
OPERATION_TAG_ATHENS_DELEGATION == 10
OPERATION_TAG_BABYLON_REVEAL == 107
OPERATION_TAG_BABYLON_TRANSACTION == 108
OPERATION_TAG_BABYLON_ORIGINATION == 109
OPERATION_TAG_BABYLON_DELEGATION == 110

\* level_t is 32 bits wide; the two reserved top bits are bits 30 and 31.
LEVEL_RESERVED_UNIT == 1073741824

(***************************************************************************)
(* Byte strings.                                                           *)
(***************************************************************************)
Zeros(n) == [i \in 1..n |-> 0]

\* READ_UNALIGNED_BIG_ENDIAN(level_t, p): four bytes, most significant first.
READ_UNALIGNED_BIG_ENDIAN(data, off) ==
    ((data[off] * 256 + data[off + 1]) * 256 + data[off + 2]) * 256 + data[off + 3]

\* The inverse, used to build payloads.
BigEndian32(n) ==
    << (n \div 16777216) % 256, (n \div 65536) % 256, (n \div 256) % 256, n % 256 >>

\* struct block (packed): magic_byte, chain_id, level, proto.
SIZEOF_BLOCK == 10
\* struct endorsement (packed): magic_byte, chain_id, branch[32], tag, level.
SIZEOF_ENDORSEMENT == 42

MkBlock(level) == <<MAGIC_BYTE_BLOCK>> \o Zeros(4) \o BigEndian32(level) \o <<0>>
MkEndorsement(level) ==
    <<MAGIC_BYTE_BAKING_OP>> \o Zeros(4) \o Zeros(32) \o <<0>> \o BigEndian32(level)

\* get_magic_byte (protocol.h): the leading byte, INVALID for an empty buffer.
get_magic_byte(data) == IF Len(data) = 0 THEN MAGIC_BYTE_INVALID ELSE data[1]

(***************************************************************************)
(* Keys.                                                                   *)
(***************************************************************************)
NoKey == [curve |-> 0, path |-> <<>>]

RECURSIVE PathCode(_)
PathCode(p) == IF p = <<>> THEN 0 ELSE Head(p) + 3 * PathCode(Tail(p))

\* The identity (public key hash) the external key derivation gives a key;
\* distinct keys have distinct identities, 0 is no identity.
Pkh(key) == 1 + key.curve + 3 * PathCode(key.path)

(***************************************************************************)
(* baking_auth.c                                                           *)
(***************************************************************************)
\* nvram_data after installation: NVRAM is zero-filled.
N_data_init ==
    [curve |-> 0, path |-> <<>>, highest_level |-> 0, had_endorsement |-> FALSE]

is_valid_level_any(lvl) == lvl >= 0

is_valid_level(lvl) == (lvl \div LEVEL_RESERVED_UNIT) % 4 = 0

write_highest_level_keep_flag(n, lvl, is_endorsement) ==
    IF ~is_valid_level(lvl) THEN n ELSE [n EXCEPT !.highest_level = lvl]

write_highest_level(n, lvl, is_endorsement) ==
    IF ~is_valid_level(lvl) THEN n
    ELSE [n EXCEPT !.highest_level = lvl, !.had_endorsement = is_endorsement]

\* authorize_baking writing the new curve over the old record.
authorize_baking_curve_only(n, curve, path, stack_junk) ==
    IF Len(path) > MAX_BIP32_PATH \/ Len(path) = 0 THEN n
    ELSE [n EXCEPT !.curve = curve, !.had_endorsement = stack_junk]

\* The new record is a local that is never initialised: highest_level, curve,
\* path and path_length are assigned, had_endorsement is not, so the value
\* written to NVRAM for it is whatever the stack held (stack_junk).
authorize_baking(n, curve, path, stack_junk) ==
    IF Len(path) > MAX_BIP32_PATH \/ Len(path) = 0 THEN n
    ELSE [curve |-> curve, path |-> path,
          highest_level |-> n.highest_level, had_endorsement |-> stack_junk]

\* "Levels are tied" says the comment before the last return, but the code
\* reaches it for every level that is not above the mark, tied or lower.
is_level_authorized(n, level, is_endorsement) ==
    /\ is_valid_level(level)
    /\ \/ level > n.highest_level
       \/ is_endorsement /\ ~n.had_endorsement

is_path_authorized_no_curve(n, curve, path) ==
    /\ Len(path) # 0
    /\ Len(path) = Len(n.path)
    /\ path = n.path

is_path_authorized(n, curve, path) ==
    /\ Len(path) # 0
    /\ Len(path) = Len(n.path)
    /\ curve = n.curve
    /\ path = n.path

\* parse_baking_data: [ok, level, is_endorsement].
NoBakingData == [ok |-> FALSE, level |-> 0, is_endorsement |-> FALSE]

parse_baking_data(data) ==
    LET magic == get_magic_byte(data) IN
    IF magic = MAGIC_BYTE_BAKING_OP
    THEN IF Len(data) # SIZEOF_ENDORSEMENT THEN NoBakingData
         ELSE [ok |-> TRUE, is_endorsement |-> TRUE,
               level |-> READ_UNALIGNED_BIG_ENDIAN(data, 39)]
    ELSE IF magic = MAGIC_BYTE_BLOCK
    THEN IF Len(data) < SIZEOF_BLOCK THEN NoBakingData
         ELSE [ok |-> TRUE, is_endorsement |-> FALSE,
               level |-> READ_UNALIGNED_BIG_ENDIAN(data, 6)]
    ELSE NoBakingData

\* guard_baking_authorized: the exception it throws, "none" when it returns.
guard_baking_authorized(n, key, baking_info) ==
    IF ~is_path_authorized(n, key.curve, key.path) THEN "SecurityError"
    ELSE IF ~baking_info.ok THEN "SecurityError"
    ELSE IF ~is_level_authorized(n, baking_info.level, baking_info.is_endorsement)
    THEN "SecurityError"
    ELSE "none"

update_high_water_mark_always(n, baking_info) ==
    write_highest_level(n, baking_info.level, baking_info.is_endorsement)

update_high_water_mark(n, baking_info) ==
    IF ~baking_info.ok THEN n  \* Must be signing a delegation
    ELSE write_highest_level(n, baking_info.level, baking_info.is_endorsement)

(***************************************************************************)
(* apdu_sign.c: the session G and the incremental hasher.                  *)
(***************************************************************************)
NoOps == [tag |-> 0, source |-> 0, destination |-> 0, signing |-> 0,
          flags |-> 0, delegate |-> 0]
NoParse == [is_valid |-> FALSE, v |-> NoOps]
NoHashState == [initialized |-> FALSE, absorbed |-> <<>>]

\* clear_data: memset(&G, 0, sizeof(G)).
clear_data ==
    [key |-> NoKey, packet_index |-> 0, message_data |-> <<>>,
     hash_state |-> NoHashState, final_hash |-> <<>>,
     magic_byte |-> MAGIC_BYTE_INVALID,
     maybe_ops |-> NoParse,
     parsed_baking_data |-> [level |-> 0, is_endorsement |-> FALSE],
     hash_only |-> FALSE]

\* b2b_update on a state: the bytes absorbed so far, in order.
b2b_update(state, bytes) ==
    [initialized |-> TRUE, absorbed |-> state.absorbed \o bytes]

\* b2b_final: the digest of the absorbed stream, an ideal hash (distinct
\* streams have distinct digests); the stream length stands for the padding.
b2b_final(state) == <<Len(state.absorbed)>> \o state.absorbed

\* The loop of blake2b_incremental_hash without moving on in the buffer.
blake2b_incremental_loop_no_shift(buf, state, offset) ==
    IF Len(buf) > B2B_BLOCKBYTES
    THEN [err |-> "none", buf |-> buf,
          state |-> b2b_update(state, SubSeq(buf, 1, B2B_BLOCKBYTES))]
    ELSE [err |-> "none", buf |-> buf, state |-> state]

\* The loop of blake2b_incremental_hash checking its offset against the
\* size of one block.
RECURSIVE blake2b_incremental_loop_block_bound(_, _, _)
blake2b_incremental_loop_block_bound(buf, state, offset) ==
    IF Len(buf) > B2B_BLOCKBYTES
    THEN IF offset > B2B_BLOCKBYTES
         THEN [err |-> "MemoryError", buf |-> buf, state |-> state]
         ELSE blake2b_incremental_loop_block_bound(
                  SubSeq(buf, B2B_BLOCKBYTES + 1, Len(buf)),
                  b2b_update(state, SubSeq(buf, 1, B2B_BLOCKBYTES)),
                  offset + B2B_BLOCKBYTES)
    ELSE [err |-> "none", buf |-> buf, state |-> state]

\* The loop of blake2b_incremental_hash absorbing every full block, the
\* last one included.
RECURSIVE blake2b_incremental_loop_full_blocks(_, _, _)
blake2b_incremental_loop_full_blocks(buf, state, offset) ==
    IF Len(buf) >= B2B_BLOCKBYTES
    THEN IF offset > TEZOS_BUFSIZE
         THEN [err |-> "MemoryError", buf |-> buf, state |-> state]
         ELSE blake2b_incremental_loop_full_blocks(
                  SubSeq(buf, B2B_BLOCKBYTES + 1, Len(buf)),
                  b2b_update(state, SubSeq(buf, 1, B2B_BLOCKBYTES)),
                  offset + B2B_BLOCKBYTES)
    ELSE [err |-> "none", buf |-> buf, state |-> state]

\* blake2b_incremental_hash: [err, buf, state]; offset is current - out.
RECURSIVE blake2b_incremental_loop(_, _, _)
blake2b_incremental_loop(buf, state, offset) ==
    IF Len(buf) > B2B_BLOCKBYTES
    THEN IF offset > TEZOS_BUFSIZE
         THEN [err |-> "MemoryError", buf |-> buf, state |-> state]
         ELSE blake2b_incremental_loop(
                  SubSeq(buf, B2B_BLOCKBYTES + 1, Len(buf)),
                  b2b_update(state, SubSeq(buf, 1, B2B_BLOCKBYTES)),
                  offset + B2B_BLOCKBYTES)
    ELSE [err |-> "none", buf |-> buf, state |-> state]

blake2b_incremental_hash(buf, state) == blake2b_incremental_loop(buf, state, 0)

\* blake2b_finish_hash: [err, buf, state, out].
blake2b_finish_hash(buf, state) ==
    LET r == blake2b_incremental_hash(buf, [state EXCEPT !.initialized = TRUE])
        st == b2b_update(r.state, r.buf)
    IN  [err |-> r.err, buf |-> r.buf, state |-> st, out |-> b2b_final(st)]

(***************************************************************************)
(* apdu_sign.c: classification and parsing.                                *)
(***************************************************************************)
is_operation_allowed(tag, baking) ==
    \/ tag \in {OPERATION_TAG_ATHENS_DELEGATION, OPERATION_TAG_ATHENS_REVEAL,
                OPERATION_TAG_BABYLON_DELEGATION, OPERATION_TAG_BABYLON_REVEAL}
    \/ /\ ~baking
       /\ tag \in {OPERATION_TAG_PROPOSAL, OPERATION_TAG_BALLOT,
                   OPERATION_TAG_ATHENS_ORIGINATION, OPERATION_TAG_ATHENS_TRANSACTION,
                   OPERATION_TAG_BABYLON_ORIGINATION, OPERATION_TAG_BABYLON_TRANSACTION}

\* An operation group on the wire, as far as this core looks at it:
\* magic byte, tag, source, destination, origination flags, delegate.
SIZEOF_OPERATION == 6
MkOperation(magic, tag, source, destination, flags, delegate) ==
    <<magic, tag, source, destination, flags, delegate>>

\* parse_operations (operations.c, external): [is_valid, v].  The result is
\* valid when the bytes are one well-formed operation whose tag is allowed;
\* v.signing is the identity of the session's own key.
parse_operations(data, key, baking) ==
    IF Len(data) = SIZEOF_OPERATION /\ is_operation_allowed(data[2], baking)
    THEN [is_valid |-> TRUE,
          v |-> [tag |-> IF data[2] \in {OPERATION_TAG_ATHENS_REVEAL,
                                         OPERATION_TAG_BABYLON_REVEAL}
                         THEN OPERATION_TAG_NONE ELSE data[2],
                 source |-> data[3], destination |-> data[4],
                 signing |-> Pkh(key), flags |-> data[5], delegate |-> data[6]]]
    ELSE NoParse

parse_allowed_operations(data, key, baking) == parse_operations(data, key, baking)

\* get_magic_byte_or_throw: [err, magic].
get_magic_byte_or_throw(buff, baking) ==
    LET magic_byte == get_magic_byte(buff) IN
    IF \/ baking /\ magic_byte \in {MAGIC_BYTE_BLOCK, MAGIC_BYTE_BAKING_OP,
                                    MAGIC_BYTE_UNSAFE_OP}
       \/ ~baking /\ magic_byte = MAGIC_BYTE_UNSAFE_OP
    THEN [err |-> "none", magic |-> magic_byte]
    ELSE [err |-> "ParseError", magic |-> magic_byte]

\* read_bip32_path (keys.c, external): [err, path] from
\* [path_length:1][path_length x 4-byte big-endian index]; an empty path, one
\* deeper than MAX_BIP32_PATH or a short buffer is a length error.
read_bip32_path(buff) ==
    IF Len(buff) < 1 THEN [err |-> "WrongLength", path |-> <<>>]
    ELSE IF buff[1] = 0 \/ buff[1] > MAX_BIP32_PATH \/ Len(buff) < 1 + 4 * buff[1]
    THEN [err |-> "WrongLength", path |-> <<>>]
    ELSE [err |-> "none",
          path |-> [i \in 1..buff[1] |-> READ_UNALIGNED_BIG_ENDIAN(buff, 4 * i - 2)]]

RECURSIVE PathBytes(_)
PathBytes(path) ==
    IF path = <<>> THEN <<>> ELSE BigEndian32(Head(path)) \o PathBytes(Tail(path))

\* The FIRST payload that names a path.
MkPath(path) == <<Len(path)>> \o PathBytes(path)

(***************************************************************************)
(* apdu_sign.c: handle_apdu up to the completion call.                     *)
(* [err, g]: the exception thrown ("none" when none) and the session as    *)
(* the code left it.                                                       *)
(***************************************************************************)
\* if (enable_parsing): the magic byte and the parse of the packet, on the
\* session g whose packet_index is already counted; [err, g].
handle_apdu_parse(g, buff, baking, mb, ops, pbd) ==
    IF baking
    THEN IF g.packet_index # 1 THEN [err |-> "ParseError", g |-> g]
         ELSE IF mb.err # "none" THEN [err |-> mb.err, g |-> g]
         ELSE IF mb.magic = MAGIC_BYTE_UNSAFE_OP
         THEN [err |-> "none",
               g |-> [g EXCEPT !.magic_byte = mb.magic, !.maybe_ops = ops]]
         ELSE IF ~pbd.ok
         THEN [err |-> "ParseError", g |-> [g EXCEPT !.magic_byte = mb.magic]]
         ELSE [err |-> "none",
               g |-> [g EXCEPT !.magic_byte = mb.magic,
                               !.parsed_baking_data =
                                   [level |-> pbd.level,
                                    is_endorsement |-> pbd.is_endorsement]]]
    ELSE IF g.packet_index = 1
    THEN IF mb.err # "none" THEN [err |-> mb.err, g |-> g]
         ELSE [err |-> "none",
               g |-> [g EXCEPT !.magic_byte = mb.magic, !.maybe_ops = ops]]
    ELSE [err |-> "none", g |-> [g EXCEPT !.maybe_ops.is_valid = FALSE]]

\* if (enable_hashing): hash contents of the previous message, then append
\* this one; h is what blake2b_incremental_hash returned; [err, g].
handle_apdu_append(g, buff, h) ==
    IF h.err # "none" THEN [err |-> h.err, g |-> g]
    ELSE IF Len(h.buf) + Len(buff) > TEZOS_BUFSIZE
    THEN [err |-> "ParseError",
          g |-> [g EXCEPT !.message_data = h.buf, !.hash_state = h.state]]
    ELSE [err |-> "none",
          g |-> [g EXCEPT !.message_data = h.buf \o buff, !.hash_state = h.state]]

\* if (last) with hashing: hash contents of this message and get the final
\* hash; h is what blake2b_incremental_hash returned, f what
\* blake2b_finish_hash returned on its result; [err, g].
handle_apdu_final_hash(g, h, f) ==
    IF h.err # "none" THEN [err |-> h.err, g |-> g]
    ELSE IF f.err # "none" THEN [err |-> f.err, g |-> g]
    ELSE [err |-> "none",
          g |-> [g EXCEPT !.message_data = f.buf, !.hash_state = f.state,
                          !.final_hash = f.out]]

blake2b_hash_and_finish(buf, state, h) == blake2b_finish_hash(h.buf, h.state)

\* The stages of case P1_NEXT after the checks on the session, each on the
\* result r of the stage before it.
handle_apdu_stage_final(r, last, enable_hashing) ==
    IF r.err # "none" \/ ~(last /\ enable_hashing) THEN r
    ELSE handle_apdu_final_hash(
             r.g,
             blake2b_incremental_hash(r.g.message_data, r.g.hash_state),
             blake2b_hash_and_finish(
                 r.g.message_data, r.g.hash_state,
                 blake2b_incremental_hash(r.g.message_data, r.g.hash_state)))

handle_apdu_stage_append(r, buff, enable_hashing) ==
    IF r.err # "none" THEN r
    ELSE handle_apdu_append(
             r.g, buff,
             IF enable_hashing
             THEN blake2b_incremental_hash(r.g.message_data, r.g.hash_state)
             ELSE [err |-> "none", buf |-> r.g.message_data,
                   state |-> r.g.hash_state])

handle_apdu_stage_parse(g, buff, baking, enable_parsing) ==
    IF ~enable_parsing THEN [err |-> "none", g |-> g]
    ELSE handle_apdu_parse(g, buff, baking, get_magic_byte_or_throw(buff, baking),
                           parse_allowed_operations(buff, g.key, baking),
                           parse_baking_data(buff))

\* case P1_NEXT without the check on the path of the session.
handle_apdu_next_any_session(g, buff, last, baking, enable_hashing) ==
    IF g.packet_index >= PACKET_INDEX_MAX THEN [err |-> "ParseError", g |-> g]
    ELSE handle_apdu_stage_final(
             handle_apdu_stage_append(
                 handle_apdu_stage_parse([g EXCEPT !.packet_index = @ + 1],
                                         buff, baking, enable_hashing),
                 buff, enable_hashing),
             last, enable_hashing)

\* case P1_NEXT with the overflow guard one packet late.
handle_apdu_next_late_guard(g, buff, last, baking, enable_hashing) ==
    IF Len(g.key.path) = 0 THEN [err |-> "WrongLength", g |-> g]
    ELSE IF g.packet_index > PACKET_INDEX_MAX THEN [err |-> "ParseError", g |-> g]
    ELSE handle_apdu_stage_final(
             handle_apdu_stage_append(
                 handle_apdu_stage_parse([g EXCEPT !.packet_index = @ + 1],
                                         buff, baking, enable_hashing),
                 buff, enable_hashing),
             last, enable_hashing)

\* case P1_HASH_ONLY_NEXT, case P1_NEXT, on the session g with hash_only set
\* where the packet asks for it.
handle_apdu_next(g, buff, last, baking, enable_hashing) ==
    IF Len(g.key.path) = 0 THEN [err |-> "WrongLength", g |-> g]
    ELSE IF g.packet_index >= PACKET_INDEX_MAX THEN [err |-> "ParseError", g |-> g]
    ELSE handle_apdu_stage_final(
             handle_apdu_stage_append(
                 handle_apdu_stage_parse([g EXCEPT !.packet_index = @ + 1],
                                         buff, baking, enable_hashing),
                 buff, enable_hashing),
             last, enable_hashing)

\* case P1_FIRST
handle_apdu_first(curve, path) ==
    IF path.err # "none" THEN [err |-> path.err, g |-> clear_data]
    ELSE [err |-> "none",
          g |-> [clear_data EXCEPT !.key = [curve |-> curve, path |-> path.path]]]

\* The switch with case P1_HASH_ONLY_NEXT compiled into both builds.
handle_apdu_kind_hash_only_everywhere(g, kind, last, curve, buff, baking, enable_hashing) ==
    IF Len(buff) > MAX_APDU_SIZE THEN [err |-> "WrongLength", g |-> g]
    ELSE IF kind = P1_FIRST THEN handle_apdu_first(curve, read_bip32_path(buff))
    ELSE IF ~(kind = P1_NEXT \/ kind = P1_HASH_ONLY_NEXT)
    THEN [err |-> "WrongParameter", g |-> g]
    ELSE handle_apdu_next(
             IF kind = P1_HASH_ONLY_NEXT THEN [g EXCEPT !.hash_only = TRUE] ELSE g,
             buff, last, baking, enable_hashing)

handle_apdu_kind(g, kind, last, curve, buff, baking, enable_hashing) ==
    IF Len(buff) > MAX_APDU_SIZE THEN [err |-> "WrongLength", g |-> g]
    ELSE IF kind = P1_FIRST THEN handle_apdu_first(curve, read_bip32_path(buff))
    ELSE IF ~(kind = P1_NEXT \/ (kind = P1_HASH_ONLY_NEXT /\ ~baking))
    THEN [err |-> "WrongParameter", g |-> g]
    ELSE handle_apdu_next(
             IF kind = P1_HASH_ONLY_NEXT THEN [g EXCEPT !.hash_only = TRUE] ELSE g,
             buff, last, baking, enable_hashing)

is_last_packet(p1) == (p1 \div P1_LAST_MARKER) % 2 = 1

handle_apdu_packet(g, instruction, p1, curve, buff, baking) ==
    handle_apdu_kind(g, IF is_last_packet(p1) THEN p1 - P1_LAST_MARKER ELSE p1,
                     is_last_packet(p1), curve, buff, baking,
                     instruction # "INS_SIGN_UNSAFE")

(***************************************************************************)
(* apdu_sign.c: completion.                                                *)
(***************************************************************************)
\* bip32_path_with_curve_eq (keys.h, external).
bip32_path_with_curve_eq(a, b) == a.curve = b.curve /\ a.path = b.path

\* prompt_register_delegate: the exception thrown, or the prompt issued.
prompt_register_delegate(g) ==
    IF ~g.maybe_ops.is_valid THEN [err |-> "MemoryError", next |-> "throw"]
    ELSE [err |-> "none", next |-> "register_delegate"]

\* baking_sign_complete asking the operator before every signature.
baking_sign_complete_always_prompts(g, n) ==
    IF g.magic_byte \in {MAGIC_BYTE_BLOCK, MAGIC_BYTE_BAKING_OP}
    THEN LET e == guard_baking_authorized(
                      n, g.key,
                      [ok |-> TRUE, level |-> g.parsed_baking_data.level,
                       is_endorsement |-> g.parsed_baking_data.is_endorsement])
         IN  IF e # "none" THEN [err |-> e, next |-> "throw"]
             ELSE [err |-> "none", next |-> "register_delegate"]
    ELSE IF g.magic_byte = MAGIC_BYTE_UNSAFE_OP
    THEN IF ~g.maybe_ops.is_valid THEN [err |-> "ParseError", next |-> "throw"]
         ELSE IF /\ bip32_path_with_curve_eq(g.key, [curve |-> n.curve, path |-> n.path])
                 /\ g.maybe_ops.v.source = g.maybe_ops.v.signing
                 /\ g.maybe_ops.v.destination = g.maybe_ops.v.signing
         THEN prompt_register_delegate(g)
         ELSE [err |-> "SecurityError", next |-> "throw"]
    ELSE [err |-> "ParseError", next |-> "throw"]

\* baking_sign_complete: [err, next]; next is "throw", "perform_signature"
\* or the prompt that suspends the command.
baking_sign_complete(g, n) ==
    IF g.magic_byte \in {MAGIC_BYTE_BLOCK, MAGIC_BYTE_BAKING_OP}
    THEN LET e == guard_baking_authorized(
                      n, g.key,
                      [ok |-> TRUE, level |-> g.parsed_baking_data.level,
                       is_endorsement |-> g.parsed_baking_data.is_endorsement])
         IN  IF e # "none" THEN [err |-> e, next |-> "throw"]
             ELSE [err |-> "none", next |-> "perform_signature"]
    ELSE IF g.magic_byte = MAGIC_BYTE_UNSAFE_OP
    THEN IF ~g.maybe_ops.is_valid THEN [err |-> "ParseError", next |-> "throw"]
         ELSE IF /\ bip32_path_with_curve_eq(g.key, [curve |-> n.curve, path |-> n.path])
                 /\ g.maybe_ops.v.source = g.maybe_ops.v.signing
                 /\ g.maybe_ops.v.destination = g.maybe_ops.v.signing
         THEN prompt_register_delegate(g)
         ELSE [err |-> "SecurityError", next |-> "throw"]
    ELSE [err |-> "ParseError", next |-> "throw"]

ORIGINATION_FLAG_SPENDABLE == 1
ORIGINATION_FLAG_DELEGATABLE == 2

\* prompt_transaction without the withdrawal variant of the delegation.
prompt_transaction_no_withdrawal(ops) ==
    LET tag == ops.tag
        delegatable == (ops.flags \div ORIGINATION_FLAG_DELEGATABLE) % 2 = 1
        has_delegate == ops.delegate # 0
    IN
    IF tag = OPERATION_TAG_PROPOSAL THEN "proposal"
    ELSE IF tag = OPERATION_TAG_BALLOT THEN "ballot"
    ELSE IF tag \in {OPERATION_TAG_ATHENS_ORIGINATION, OPERATION_TAG_BABYLON_ORIGINATION}
    THEN IF ops.flags % 2 # ORIGINATION_FLAG_SPENDABLE THEN "false"
         ELSE IF delegatable /\ has_delegate THEN "origination_delegatable"
         ELSE IF delegatable THEN "origination_delegatable_any"
         ELSE IF has_delegate THEN "origination_fixed"
         ELSE "origination_undelegatable"
    ELSE IF tag \in {OPERATION_TAG_ATHENS_DELEGATION, OPERATION_TAG_BABYLON_DELEGATION}
    THEN "delegation"
    ELSE IF tag \in {OPERATION_TAG_ATHENS_TRANSACTION, OPERATION_TAG_BABYLON_TRANSACTION}
    THEN "transaction"
    ELSE IF tag = OPERATION_TAG_NONE THEN "reveal"
    ELSE "ParseError"

\* prompt_transaction: the template it prompts with, "false" when it returns
\* false, "ParseError" when it throws (ui_prompt does not return).
prompt_transaction(ops) ==
    LET tag == ops.tag
        delegatable == (ops.flags \div ORIGINATION_FLAG_DELEGATABLE) % 2 = 1
        has_delegate == ops.delegate # 0
    IN
    IF tag = OPERATION_TAG_PROPOSAL THEN "proposal"
    ELSE IF tag = OPERATION_TAG_BALLOT THEN "ballot"
    ELSE IF tag \in {OPERATION_TAG_ATHENS_ORIGINATION, OPERATION_TAG_BABYLON_ORIGINATION}
    THEN IF ops.flags % 2 # ORIGINATION_FLAG_SPENDABLE THEN "false"
         ELSE IF delegatable /\ has_delegate THEN "origination_delegatable"
         ELSE IF delegatable THEN "origination_delegatable_any"
         ELSE IF has_delegate THEN "origination_fixed"
         ELSE "origination_undelegatable"
    ELSE IF tag \in {OPERATION_TAG_ATHENS_DELEGATION, OPERATION_TAG_BABYLON_DELEGATION}
    THEN IF ops.destination = 0 THEN "withdrawal" ELSE "delegation"
    ELSE IF tag \in {OPERATION_TAG_ATHENS_TRANSACTION, OPERATION_TAG_BABYLON_TRANSACTION}
    THEN "transaction"
    ELSE IF tag = OPERATION_TAG_NONE THEN "reveal"
    ELSE "ParseError"

\* wallet_sign_complete without the goto unsafe: an invalid parse result is
\* a parse error.
wallet_sign_complete_no_fallback(g, instruction) ==
    LET ok_c == IF instruction = "INS_SIGN_WITH_HASH"
                THEN "sign_with_hash_ok" ELSE "sign_without_hash_ok"
        t == prompt_transaction(g.maybe_ops.v)
    IN
    IF instruction = "INS_SIGN_UNSAFE"
    THEN [err |-> "none", kind |-> "prehashed", ok |-> "sign_unsafe_ok"]
    ELSE IF g.magic_byte = MAGIC_BYTE_UNSAFE_OP /\ g.maybe_ops.is_valid
            /\ t \notin {"false", "ParseError"}
    THEN [err |-> "none", kind |-> t, ok |-> ok_c]
    ELSE [err |-> "ParseError", kind |-> "none", ok |-> "none"]

\* wallet_sign_complete: [err, kind, ok]: the prompt and its confirm callback.
wallet_sign_complete(g, instruction) ==
    LET ok_c == IF instruction = "INS_SIGN_WITH_HASH"
                THEN "sign_with_hash_ok" ELSE "sign_without_hash_ok"
        t == prompt_transaction(g.maybe_ops.v)
    IN
    IF instruction = "INS_SIGN_UNSAFE"
    THEN [err |-> "none", kind |-> "prehashed", ok |-> "sign_unsafe_ok"]
    ELSE IF g.magic_byte = MAGIC_BYTE_UNSAFE_OP
    THEN IF ~g.maybe_ops.is_valid \/ t = "false"
         THEN [err |-> "none", kind |-> "parse_fail", ok |-> ok_c]
         ELSE IF t = "ParseError"
         THEN [err |-> "ParseError", kind |-> "none", ok |-> "none"]
         ELSE [err |-> "none", kind |-> t, ok |-> ok_c]
    ELSE IF g.magic_byte \in {MAGIC_BYTE_UNSAFE_OP2, MAGIC_BYTE_UNSAFE_OP3}
    THEN [err |-> "none", kind |-> "parse_fail", ok |-> ok_c]
    ELSE [err |-> "ParseError", kind |-> "none", ok |-> "none"]

\* write_high_water_mark (baking_auth.c of the apdu_sign.c generation, not in
\* the sources): record the level of a signed block or endorsement; the
\* session of a delegation carries no baking data.
write_high_water_mark(n, g) ==
    update_high_water_mark(
        n, [ok |-> g.magic_byte \in {MAGIC_BYTE_BLOCK, MAGIC_BYTE_BAKING_OP},
            level |-> g.parsed_baking_data.level,
            is_endorsement |-> g.parsed_baking_data.is_endorsement])

\* perform_signature: its effects in the order the code has them; the
\* response leaves the device last.
perform_signature_sign_first(baking, hash_only) ==
    IF baking THEN <<"sign", "write", "send">>
    ELSE IF hash_only THEN <<"send">> ELSE <<"sign", "send">>

perform_signature_hash_only_signs(baking, hash_only) ==
    IF baking THEN <<"write", "sign", "send">> ELSE <<"sign", "send">>

perform_signature_steps(baking, hash_only) ==
    IF baking THEN <<"write", "sign", "send">>
    ELSE IF hash_only THEN <<"send">> ELSE <<"sign", "send">>

(***************************************************************************)
(* State.                                                                  *)
(***************************************************************************)
VARIABLES
    build,             \* "main" (main.c's dispatcher), "baking", "wallet" (apdu_sign.c)
    N_data,            \* baking_auth.c: the persistent record
    G,                 \* apdu_sign.c: the signing session
    operationContext,  \* main.c: the signing session
    prompt,            \* the pending confirmation: [kind, ok]
    emitted,           \* history: block / endorsement signatures sent, [kind, level]
    last,              \* history: what the last step did
    packet             \* history: the packet handle_apdu took in the last step

vars == <<build, N_data, G, operationContext, prompt, emitted, last, packet>>

NoPrompt == [kind |-> "none", ok |-> "none"]
operationContext_init == [path |-> <<>>, curve |-> 0, data |-> <<>>]
NoResponse == [final_hash |-> <<>>, signed |-> FALSE, key |-> NoKey, data |-> <<>>]

\* The packet of a step that is not handle_apdu.
NoPacket ==
    [kind |-> -1, is_last |-> FALSE, parsing |-> FALSE, with_hash |-> FALSE,
     magic |-> 0, index |-> 0,
     size |-> 0, accepted |-> FALSE, buff |-> <<>>, curve |-> 0, path |-> <<>>]

\* The request a session stands for.
ReqKind(magic) ==
    IF magic = MAGIC_BYTE_BLOCK THEN "block"
    ELSE IF magic = MAGIC_BYTE_BAKING_OP THEN "endorsement"
    ELSE IF magic \in {MAGIC_BYTE_UNSAFE_OP, MAGIC_BYTE_UNSAFE_OP2, MAGIC_BYTE_UNSAFE_OP3}
    THEN "unsafe_op"
    ELSE "none"

Range(f) == {f[i] : i \in DOMAIN f}

OtherStep(op, status) ==
    [op |-> op, status |-> status, kind |-> "none", level |-> 0, key |-> NoKey,
     ops |-> NoParse, pre |-> N_data, steps |-> <<>>, again |-> FALSE,
     lower |-> FALSE, response |-> NoResponse]

\* A step that handled the request (kind, level) of the session key.
RequestStep(op, status, kind, level, key, ops, steps, response) ==
    LET sent == "sign" \in Range(steps) /\ "send" \in Range(steps)
                /\ kind \in {"block", "endorsement"}
    IN  [op |-> op, status |-> status, kind |-> kind, level |-> level, key |-> key,
         ops |-> ops, pre |-> N_data, steps |-> steps,
         again |-> sent /\ [kind |-> kind, level |-> level] \in emitted,
         lower |-> sent /\ \E e \in emitted : e.level > level,
         response |-> response]

Emit(kind, level, steps) ==
    emitted' = IF /\ kind \in {"block", "endorsement"}
                  /\ "sign" \in Range(steps) /\ "send" \in Range(steps)
               THEN emitted \cup {[kind |-> kind, level |-> level]}
               ELSE emitted

\* Power is lost: RAM is gone, NVRAM stays.
Reboot ==
    /\ G' = clear_data
    /\ operationContext' = operationContext_init
    /\ prompt' = NoPrompt

(***************************************************************************)
(* Inputs.                                                                 *)
(***************************************************************************)
Levels == (0..MaxLevel) \cup {LEVEL_RESERVED_UNIT + 1}

K0 == [curve |-> 0, path |-> <<1>>]
K1 == [curve |-> 1, path |-> <<1>>]
\* Session keys: K0 and keys that differ from it in the curve, in one path
\* element, in the path length.
Keys == {K0, K1, [curve |-> 0, path |-> <<2>>], [curve |-> 0, path |-> <<1, 1>>]}
\* The key the operator is asked to authorize.
BakingKeys == {K0}

\* FIRST packets: a curve and a path payload; one names no path.
FirstPackets == {[curve |-> k.curve, buff |-> MkPath(k.path)] : k \in Keys}
                \cup {[curve |-> 0, buff |-> <<0>>]}

BakingPayloads ==
    {MkBlock(l) : l \in Levels} \cup {MkEndorsement(l) : l \in Levels}
    \cup {<<>>, <<MAGIC_BYTE_BLOCK, 0, 0>>, SubSeq(MkEndorsement(1), 1, 41)}

Delegation(source, destination) ==
    MkOperation(MAGIC_BYTE_UNSAFE_OP, OPERATION_TAG_BABYLON_DELEGATION,
                source, destination, 0, 0)
Transaction(source, destination) ==
    MkOperation(MAGIC_BYTE_UNSAFE_OP, OPERATION_TAG_BABYLON_TRANSACTION,
                source, destination, 0, 0)

\* Operations offered to the baking build and to main.c.
BakingOperations ==
    {Delegation(Pkh(K0), Pkh(K0)), Delegation(Pkh(K1), Pkh(K1)),
     Delegation(Pkh(K0), Pkh(K1)), Delegation(Pkh(K1), Pkh(K0)),
     Transaction(Pkh(K0), Pkh(K0))}

\* Operations offered to the wallet build.
WalletOperations ==
    {Delegation(Pkh(K0), Pkh(K1)), Delegation(Pkh(K0), 0),
     Transaction(Pkh(K0), Pkh(K1)),
     MkOperation(MAGIC_BYTE_UNSAFE_OP, OPERATION_TAG_BABYLON_REVEAL, Pkh(K0), 0, 0, 0),
     MkOperation(MAGIC_BYTE_UNSAFE_OP, OPERATION_TAG_PROPOSAL, Pkh(K0), 0, 0, 0),
     MkOperation(MAGIC_BYTE_UNSAFE_OP, OPERATION_TAG_BABYLON_ORIGINATION,
                 Pkh(K0), Pkh(K0), 0, 0),
     MkOperation(MAGIC_BYTE_UNSAFE_OP, OPERATION_TAG_BABYLON_ORIGINATION,
                 Pkh(K0), Pkh(K0), ORIGINATION_FLAG_SPENDABLE, 0),
     MkOperation(MAGIC_BYTE_UNSAFE_OP2, OPERATION_TAG_BABYLON_DELEGATION,
                 Pkh(K0), Pkh(K0), 0, 0),
     MkBlock(1), <<>>}

\* A ballot and the originations that may be spent, with each choice of the
\* delegatable flag and of a delegate.
TemplateOperations ==
    {MkOperation(MAGIC_BYTE_UNSAFE_OP, OPERATION_TAG_BALLOT, Pkh(K0), 0, 0, 0)}
    \cup {MkOperation(MAGIC_BYTE_UNSAFE_OP, OPERATION_TAG_ATHENS_ORIGINATION,
                      Pkh(K0), Pkh(K0), ORIGINATION_FLAG_SPENDABLE + flag, delegate) :
              flag \in {0, ORIGINATION_FLAG_DELEGATABLE}, delegate \in {0, Pkh(K1)}}

\* A session of the signing application that has its key and no data yet.
TemplateSession ==
    /\ build = "wallet"
    /\ G = [clear_data EXCEPT !.key = K0]

\* The first data packet carries an operation; later ones continue it.
Continuations == {<<>>, <<7>>}
\* The baking build takes its message in one packet, so it is offered a
\* message without the LAST marker only now and then; a packet whose kind
\* the build refuses is offered empty.
DataPayloads(baking, packet_index, p1) ==
    IF p1 % P1_LAST_MARKER \notin {P1_NEXT, P1_HASH_ONLY_NEXT} THEN {<<>>}
    ELSE IF baking /\ p1 % P1_LAST_MARKER # P1_NEXT THEN {<<>>}
    ELSE IF packet_index # 0 THEN IF baking THEN {<<>>} ELSE Continuations
    ELSE IF ~baking THEN WalletOperations
    ELSE IF p1 >= P1_LAST_MARKER THEN BakingPayloads \cup BakingOperations
    ELSE {MkBlock(1)}

Instructions == {"INS_SIGN", "INS_SIGN_WITH_HASH", "INS_SIGN_UNSAFE"}
DataP1Values == {P1_NEXT, P1_HASH_ONLY_NEXT, 2,
                 P1_NEXT + P1_LAST_MARKER, P1_HASH_ONLY_NEXT + P1_LAST_MARKER}

Init ==
    /\ build \in {"main", "baking", "wallet"}
    /\ N_data = N_data_init
    /\ G = clear_data
    /\ operationContext = operationContext_init
    /\ prompt = NoPrompt
    /\ emitted = {}
    /\ last = [op |-> "boot", status |-> "OK", kind |-> "none", level |-> 0,
               key |-> NoKey, ops |-> NoParse, pre |-> N_data_init, steps |-> <<>>,
               again |-> FALSE, lower |-> FALSE, response |-> NoResponse]
    /\ packet = NoPacket

(***************************************************************************)
(* apdu_sign.c: the actions.                                               *)
(***************************************************************************)
\* A command loop that leaves the session as the exception found it.
abort_session_keep(g) == g

\* The command loop that calls handle_apdu is not in the sources; on an
\* exception it drops the session in flight.
abort_session(g) == clear_data

\* perform_signature on session g.  done counts the steps that ran: all of
\* them, or fewer when power is lost on the way.
PerformSignatureUpTo(op, g, on_hash, send_hash, done, before) ==
    LET baking == build = "baking"
        hash_only == ~baking /\ on_hash /\ g.hash_only
        order == perform_signature_steps(baking, hash_only)
        ran == SubSeq(order, 1, done)
        complete == done = Len(order)
        kind == ReqKind(g.magic_byte)
        level == g.parsed_baking_data.level
        response ==
            IF ~complete THEN NoResponse
            ELSE IF hash_only
            THEN [final_hash |-> g.final_hash, signed |-> FALSE, key |-> NoKey,
                  data |-> <<>>]
            ELSE [final_hash |-> IF send_hash /\ on_hash THEN g.final_hash ELSE <<>>,
                  signed |-> TRUE, key |-> g.key,
                  data |-> IF on_hash THEN g.final_hash ELSE g.message_data]
    IN  /\ N_data' = IF "write" \in Range(ran)
                     THEN write_high_water_mark(N_data, g) ELSE N_data
        /\ Emit(kind, level, ran)
        /\ last' = RequestStep(op, IF complete THEN "OK" ELSE "PowerLoss", kind, level,
                               g.key, g.maybe_ops, before \o ran, response)
        /\ IF complete
           THEN /\ G' = clear_data
                /\ prompt' = NoPrompt
                /\ UNCHANGED operationContext
           ELSE Reboot
        /\ UNCHANGED build

PerformSignature(op, g, on_hash, send_hash, before) ==
    \E done \in 0..Len(perform_signature_steps(
                         build = "baking", build # "baking" /\ on_hash /\ g.hash_only)) :
        PerformSignatureUpTo(op, g, on_hash, send_hash, done, before)

\* A command that ends with an exception; one thrown before the completion
\* call leaves no steps, and the kind of message the session had by then.
Throw(op, err, g, at_completion) ==
    /\ G' = abort_session(g)
    /\ last' = IF at_completion
               THEN RequestStep(op, err, ReqKind(g.magic_byte),
                                g.parsed_baking_data.level, g.key, g.maybe_ops,
                                <<"guard">>, NoResponse)
               ELSE [OtherStep(op, err) EXCEPT !.kind = ReqKind(g.magic_byte)]
    /\ UNCHANGED <<build, N_data, operationContext, prompt, emitted>>

\* ui_prompt: the command suspends until the operator answers.
Suspend(op, g, kind, ok) ==
    /\ G' = g
    /\ prompt' = [kind |-> kind, ok |-> ok]
    /\ last' = RequestStep(op, "Pending", ReqKind(g.magic_byte),
                           g.parsed_baking_data.level, g.key, g.maybe_ops,
                           <<"guard", "prompt">>, NoResponse)
    /\ UNCHANGED <<build, N_data, operationContext, emitted>>

\* The completion call of handle_apdu on the session g of a LAST packet.
handle_apdu_baking_complete(g, instruction, c) ==
    IF c.next = "throw" THEN Throw("handle_apdu", c.err, g, TRUE)
    ELSE IF c.next = "perform_signature"
    THEN PerformSignature("handle_apdu", g, TRUE,
                          instruction = "INS_SIGN_WITH_HASH", <<"guard">>)
    ELSE Suspend("handle_apdu", g, c.next,
                 IF instruction = "INS_SIGN_WITH_HASH"
                 THEN "sign_with_hash_ok" ELSE "sign_without_hash_ok")

handle_apdu_wallet_complete(g, w) ==
    IF w.err # "none" THEN Throw("handle_apdu", w.err, g, TRUE)
    ELSE Suspend("handle_apdu", g, w.kind, w.ok)

handle_apdu_result(r, instruction, is_last) ==
    IF r.err # "none" THEN Throw("handle_apdu", r.err, r.g, FALSE)
    ELSE IF ~is_last
    THEN /\ G' = r.g
         /\ last' = OtherStep("handle_apdu", "OK")
         /\ UNCHANGED <<build, N_data, operationContext, prompt, emitted>>
    ELSE IF build = "baking"
    THEN handle_apdu_baking_complete(r.g, instruction,
                                     baking_sign_complete(r.g, N_data))
    ELSE handle_apdu_wallet_complete(r.g, wallet_sign_complete(r.g, instruction))

\* What handle_apdu was handed, for the record: the kind of packet, whether
\* the instruction parses and hashes, whether the last packet of a message
\* asks for the hash as well, the discriminator of a data packet,
\* the packet counter it met, the length of the payload of a packet that is
\* not a FIRST packet,
\* the payload of a data packet that was appended (r is the outcome of the
\* packet), and the curve and the path a FIRST packet names.
PacketOf(instruction, p1, curve, buff, r) ==
    LET kind == p1 % P1_LAST_MARKER
        data == kind \in {P1_NEXT, P1_HASH_ONLY_NEXT}
    IN  [kind |-> kind, is_last |-> is_last_packet(p1),
         parsing |-> instruction # "INS_SIGN_UNSAFE",
         with_hash |-> instruction = "INS_SIGN_WITH_HASH" /\ r.err = "none"
                       /\ is_last_packet(p1) /\ data,
         magic |-> IF data THEN get_magic_byte(buff) ELSE 0,
         index |-> IF data THEN G.packet_index ELSE 0,
         size |-> IF kind # P1_FIRST THEN Len(buff) ELSE 0,
         accepted |-> r.err = "none",
         buff |-> IF data /\ r.err = "none" THEN buff ELSE <<>>,
         curve |-> IF kind = P1_FIRST THEN curve ELSE 0,
         path |-> IF kind = P1_FIRST THEN read_bip32_path(buff).path ELSE <<>>]

\* handle_apdu after the packet was taken with outcome r: the completion
\* and the record of the packet.
handle_apdu_outcome(instruction, p1, curve, buff, r) ==
    /\ handle_apdu_result(r, instruction, is_last_packet(p1))
    /\ packet' = PacketOf(instruction, p1, curve, buff, r)

handle_apdu(instruction, p1, curve, buff) ==
    /\ build \in {"baking", "wallet"}
    /\ prompt = NoPrompt
    /\ handle_apdu_outcome(
           instruction, p1, curve, buff,
           handle_apdu_packet(G, instruction, p1, curve, buff, build = "baking"))

\* sign_with_hash_ok, sign_without_hash_ok, sign_unsafe_ok: the operator
\* confirms the pending prompt.
sign_ok ==
    /\ prompt.ok \in {"sign_with_hash_ok", "sign_without_hash_ok", "sign_unsafe_ok"}
    /\ PerformSignature(prompt.ok, G, prompt.ok # "sign_unsafe_ok",
                        prompt.ok = "sign_with_hash_ok", <<>>)
    /\ packet' = NoPacket

\* sign_reject without clear_data.
sign_reject_keeps_session ==
    /\ prompt.ok \in {"sign_with_hash_ok", "sign_without_hash_ok", "sign_unsafe_ok"}
    /\ prompt' = NoPrompt
    /\ last' = RequestStep("sign_reject", "Rejected", ReqKind(G.magic_byte),
                           G.parsed_baking_data.level, G.key, G.maybe_ops, <<>>,
                           NoResponse)
    /\ UNCHANGED <<build, N_data, G, operationContext, emitted>>
    /\ packet' = NoPacket

\* sign_reject that leaves the prompt waiting.
sign_reject_unanswered ==
    /\ prompt.ok \in {"sign_with_hash_ok", "sign_without_hash_ok", "sign_unsafe_ok"}
    /\ last' = RequestStep("sign_reject", "Rejected", ReqKind(G.magic_byte),
                           G.parsed_baking_data.level, G.key, G.maybe_ops, <<>>,
                           NoResponse)
    /\ UNCHANGED <<build, N_data, G, operationContext, emitted, prompt>>
    /\ packet' = NoPacket

\* sign_reject: the operator rejects the pending prompt.
sign_reject ==
    /\ prompt.ok \in {"sign_with_hash_ok", "sign_without_hash_ok", "sign_unsafe_ok"}
    /\ G' = clear_data
    /\ prompt' = NoPrompt
    /\ last' = RequestStep("sign_reject", "Rejected", ReqKind(G.magic_byte),
                           G.parsed_baking_data.level, G.key, G.maybe_ops, <<>>,
                           NoResponse)
    /\ UNCHANGED <<build, N_data, operationContext, emitted>>
    /\ packet' = NoPacket

\* The operator confirms the authorization of a baking key (the command that
\* prompts for it is not in the sources): authorize_baking(curve, path).
AuthorizeBaking(key, stack_junk) ==
    /\ build = "baking"
    /\ prompt = NoPrompt
    /\ N_data' = authorize_baking(N_data, key.curve, key.path, stack_junk)
    /\ last' = [OtherStep("authorize_baking", "OK") EXCEPT !.key = key]
    /\ UNCHANGED <<build, G, operationContext, prompt, emitted>>
    /\ packet' = NoPacket

\* Power is lost between two commands or while a prompt is pending.
PowerCycle ==
    /\ Reboot
    /\ last' = OtherStep("power_cycle", "PowerLoss")
    /\ UNCHANGED <<build, N_data, emitted>>
    /\ packet' = NoPacket

\* A long message for the hasher: StreamLen bytes that start with the
\* discriminator UNSAFE_OP, each byte telling its place.
Stream == [i \in 1..StreamLen |-> IF i = 1 THEN MAGIC_BYTE_UNSAFE_OP ELSE 100 + (i % 100)]

\* What a session has received: the bytes the hasher absorbed and the ones
\* that wait in the buffer.
Received(g) == g.hash_state.absorbed \o g.message_data

\* The message is cut around the block size of the hasher first, later into
\* a single byte or all that is left; the packet that ends it is LAST.
SplitPoints == {B2B_BLOCKBYTES - 1, B2B_BLOCKBYTES, B2B_BLOCKBYTES + 1}
StreamChunks(received) ==
    IF received = 0 THEN SplitPoints
    ELSE {n \in {1, StreamLen - received} : n >= 1}
StreamP1(received, size) ==
    IF received + size = StreamLen THEN P1_NEXT + P1_LAST_MARKER ELSE P1_NEXT

\* The wallet's session of K0 that has received a part of Stream.
StreamSession ==
    /\ build = "wallet"
    /\ G.key = K0
    /\ ~G.hash_only
    /\ G.packet_index < MaxPackets
    /\ (G.packet_index = 0) = (Received(G) = <<>>)
    /\ Len(Received(G)) < StreamLen
    /\ Received(G) = SubSeq(Stream, 1, Len(Received(G)))

\* A packet as long as handle_apdu takes, and a buffer of n of them.
BigPacket == [i \in 1..MAX_APDU_SIZE |-> 9]
\* A payload one byte longer than a packet may carry.
OversizePacket == BigPacket \o <<9>>

RECURSIVE BigPackets(_)
BigPackets(n) == IF n = 0 THEN <<>> ELSE BigPackets(n - 1) \o BigPacket

\* One session is filled up to the capacity of the buffer: the wallet's
\* session of K0, fed full packets under the instruction that does not hash.
FullSession ==
    /\ build = "wallet"
    /\ G = [clear_data EXCEPT !.key = K0, !.packet_index = G.packet_index,
                              !.message_data = BigPackets(G.packet_index)]

\* Past MaxPackets one session goes on, up to the end of the packet counter:
\* the wallet's session of K0 that holds no data, fed empty NEXT packets
\* under the instruction that neither parses nor hashes.
LongSession ==
    /\ build = "wallet"
    /\ G.packet_index >= MaxPackets
    /\ G = [clear_data EXCEPT !.key = K0, !.packet_index = G.packet_index]

NextApdu ==
    \/ \E instruction \in Instructions, first \in FirstPackets :
         handle_apdu(instruction, P1_FIRST, first.curve, first.buff)
    \/ \E instruction \in Instructions, p1 \in DataP1Values :
       \E buff \in DataPayloads(build = "baking", G.packet_index, p1) :
         /\ G.packet_index < MaxPackets
         /\ handle_apdu(instruction, p1, 0, buff)
    \/ /\ LongSession
       /\ handle_apdu("INS_SIGN_UNSAFE", P1_NEXT, 0, <<>>)
    \/ /\ FullSession
       /\ handle_apdu("INS_SIGN_UNSAFE", P1_NEXT, 0, BigPacket)
    \/ \E p1 \in {P1_NEXT, P1_NEXT + P1_LAST_MARKER} :
         /\ FullSession
         /\ Len(G.message_data) + MAX_APDU_SIZE > TEZOS_BUFSIZE
         /\ \E buff \in {<<>>, BigPacket} : handle_apdu("INS_SIGN", p1, 0, buff)
    \/ handle_apdu("INS_SIGN", 2, 0, OversizePacket)
    \/ \E buff \in TemplateOperations :
         /\ TemplateSession
         /\ handle_apdu("INS_SIGN", P1_NEXT + P1_LAST_MARKER, 0, buff)
    \/ \E size \in StreamChunks(Len(Received(G))) :
         /\ StreamSession
         /\ handle_apdu("INS_SIGN", StreamP1(Len(Received(G)), size), 0,
                        SubSeq(Stream, Len(Received(G)) + 1, Len(Received(G)) + size))
    \/ sign_ok
    \/ sign_reject
    \/ \E key \in BakingKeys \cup {NoKey}, stack_junk \in BOOLEAN :
         AuthorizeBaking(key, stack_junk)
    \/ PowerCycle

(***************************************************************************)
(* main.c: the command loop with its inline handlers.                      *)
(***************************************************************************)
\* is_baking_authorized (baking_auth.c of main.c's generation, not in the
\* sources): the guard as a predicate.
is_baking_authorized(n, ctx) ==
    guard_baking_authorized(n, [curve |-> ctx.curve, path |-> ctx.path],
                            parse_baking_data(ctx.data)) = "none"

\* perform_signature: its effects in order; the caller sends the response.
main_perform_signature_steps == <<"write", "sign", "send">>

\* The curves cx_eddsa_sign / cx_ecdsa_sign are called for; any other curve
\* throws 0x6B00 where the signature would be made.
main_curve_supported(curve) == curve \in {0, 1}

\* The P2 values that select a curve.
main_curve(ctx, p2) == IF p2 \in {0, 1, 2} THEN p2 ELSE ctx.curve

MainRequestStep(op, status, ctx, steps) ==
    LET info == parse_baking_data(ctx.data)
        signed == "sign" \in Range(steps) /\ "send" \in Range(steps)
    IN  RequestStep(op, status, ReqKind(get_magic_byte(ctx.data)), info.level,
                    [curve |-> ctx.curve, path |-> ctx.path], NoParse, steps,
                    IF signed
                    THEN [final_hash |-> <<>>, signed |-> TRUE,
                          key |-> [curve |-> ctx.curve, path |-> ctx.path],
                          data |-> b2b_final(b2b_update(NoHashState, ctx.data))]
                    ELSE NoResponse)

\* perform_signature on the context, after N_data became n0.
MainPerformSignature(op, ctx, n0, before) ==
    \E done \in 0..Len(main_perform_signature_steps) :
        LET order == main_perform_signature_steps
            info == parse_baking_data(ctx.data)
            sign_at == CHOOSE i \in 1..Len(order) : order[i] = "sign"
            ran == IF main_curve_supported(ctx.curve) \/ done < sign_at
                   THEN SubSeq(order, 1, done) ELSE SubSeq(order, 1, sign_at - 1)
            complete == done = Len(order)
            status == IF ~complete THEN "PowerLoss"
                      ELSE IF main_curve_supported(ctx.curve) THEN "OK"
                      ELSE "WrongParameter"
        IN  /\ N_data' = IF "write" \in Range(ran)
                         THEN update_high_water_mark(n0, info) ELSE n0
            /\ Emit(ReqKind(get_magic_byte(ctx.data)), info.level, ran)
            /\ last' = MainRequestStep(op, status, ctx, before \o ran)
            /\ IF complete
               THEN /\ operationContext' = ctx
                    /\ prompt' = NoPrompt
                    /\ UNCHANGED <<G>>
               ELSE Reboot
            /\ UNCHANGED build

\* CATCH_OTHER: the status word goes out, the context stays as it is.
MainThrow(op, err, ctx) ==
    /\ operationContext' = ctx
    /\ last' = OtherStep(op, err)
    /\ UNCHANGED <<build, N_data, G, prompt, emitted>>

MainSuspend(op, ctx, kind, ok, before) ==
    /\ operationContext' = ctx
    /\ prompt' = [kind |-> kind, ok |-> ok]
    /\ last' = MainRequestStep(op, "Pending", ctx, before \o <<"prompt">>)
    /\ UNCHANGED <<build, N_data, G, emitted>>

\* case INS_SIGN
main_ins_sign(p1, p2, buff) ==
    /\ build = "main"
    /\ prompt = NoPrompt
    /\ LET is_last == (p1 \div P1_LAST_MARKER) % 2 = 1
           kind == IF is_last THEN p1 - P1_LAST_MARKER ELSE p1
           path == read_bip32_path(buff)
           first == [path |-> path.path, curve |-> main_curve(operationContext, p2),
                     data |-> <<>>]
           ctx == [operationContext EXCEPT !.data = @ \o buff]
           magic == get_magic_byte(ctx.data)
       IN  IF kind = P1_FIRST
           THEN IF path.err # "none"
                THEN MainThrow("INS_SIGN", path.err,
                               [operationContext EXCEPT !.data = <<>>])
                ELSE MainThrow("INS_SIGN", "OK", first)
           ELSE IF kind # P1_NEXT THEN MainThrow("INS_SIGN", "WrongParameter", operationContext)
           ELSE IF p2 > 2 THEN MainThrow("INS_SIGN", "WrongParameter", operationContext)
           ELSE IF Len(operationContext.data) + Len(buff) > TEZOS_BUFSIZE
           THEN MainThrow("INS_SIGN", "WrongLength", operationContext)
           ELSE IF ~is_last THEN MainThrow("INS_SIGN", "OK", ctx)
           ELSE IF magic \in {MAGIC_BYTE_BLOCK, MAGIC_BYTE_BAKING_OP}
           THEN IF is_baking_authorized(N_data, ctx)
                THEN MainPerformSignature("INS_SIGN", ctx, N_data, <<"guard">>)
                ELSE MainSuspend("INS_SIGN", ctx, "bake", "bake_ok", <<"guard">>)
           ELSE IF magic \in {MAGIC_BYTE_UNSAFE_OP, MAGIC_BYTE_UNSAFE_OP2,
                              MAGIC_BYTE_UNSAFE_OP3}
           THEN MainSuspend("INS_SIGN", ctx, "sign", "sign_ok", <<>>)
           ELSE MainThrow("INS_SIGN", "WrongLength", ctx)
    /\ packet' = [NoPacket EXCEPT !.kind = p1 % P1_LAST_MARKER,
                                 !.is_last = is_last_packet(p1),
                                 !.size = IF p1 % P1_LAST_MARKER = P1_NEXT /\ p2 <= 2
                                          THEN Len(buff) ELSE 0,
                                 !.accepted = p1 % P1_LAST_MARKER = P1_FIRST
                                              /\ read_bip32_path(buff).err = "none",
                                 !.curve = IF p1 % P1_LAST_MARKER = P1_FIRST
                                           THEN p2 ELSE 0,
                                 !.path = IF p1 % P1_LAST_MARKER = P1_FIRST
                                          THEN read_bip32_path(buff).path ELSE <<>>]

\* delay_reject from a cancel callback or a failed confirmation.
main_reject(op) ==
    /\ prompt' = NoPrompt
    /\ last' = MainRequestStep(op, "Rejected", operationContext, <<>>)
    /\ UNCHANGED <<build, N_data, G, operationContext, emitted>>

\* bake_ok: authorize the session key, then sign.  main.c hands
\* authorize_baking the message and takes a success flag back; the function
\* at hand takes the curve and fails silently on a bad path.
bake_ok(stack_junk) ==
    /\ prompt.ok = "bake_ok"
    /\ LET ctx == operationContext
           success == ~(Len(ctx.path) > MAX_BIP32_PATH \/ Len(ctx.path) = 0)
       IN  IF ~success THEN main_reject("bake_ok")
           ELSE MainPerformSignature(
                    "bake_ok", ctx,
                    authorize_baking(N_data, ctx.curve, ctx.path, stack_junk),
                    <<"authorize">>)
    /\ packet' = NoPacket

main_sign_ok ==
    /\ prompt.ok = "sign_ok"
    /\ MainPerformSignature("sign_ok", operationContext, N_data, <<>>)
    /\ packet' = NoPacket

sign_cancel ==
    /\ prompt.ok \in {"bake_ok", "sign_ok"}
    /\ main_reject("sign_cancel")
    /\ packet' = NoPacket

\* case INS_RESET
main_ins_reset(buff) ==
    /\ build = "main"
    /\ prompt = NoPrompt
    /\ IF Len(buff) # 4 THEN MainThrow("INS_RESET", "WrongLength", operationContext)
       ELSE MainSuspend("INS_RESET",
                        [operationContext EXCEPT
                            !.data = buff \o SubSeq(@, 5, Len(@))],
                        "reset", "reset_ok", <<>>)
    /\ packet' = NoPacket

\* reset_ok: main.c calls write_highest_level(level); the function at hand
\* has a second parameter, which this call leaves undetermined.
reset_ok(is_endorsement) ==
    /\ prompt.ok = "reset_ok"
    /\ N_data' = write_highest_level(
                     N_data, READ_UNALIGNED_BIG_ENDIAN(operationContext.data, 1),
                     is_endorsement)
    /\ prompt' = NoPrompt
    /\ last' = OtherStep("reset_ok", "OK")
    /\ UNCHANGED <<build, G, operationContext, emitted>>
    /\ packet' = NoPacket

reset_cancel ==
    /\ prompt.ok = "reset_ok"
    /\ main_reject("reset_cancel")
    /\ packet' = NoPacket

\* Inputs of main.c's loop.
MainKeys == {K0, [curve |-> 2, path |-> <<1>>]}
MainFirstPackets == {[curve |-> k.curve, buff |-> MkPath(k.path)] : k \in MainKeys}
                    \cup {[curve |-> 0, buff |-> <<0>>],
                          [curve |-> 3, buff |-> MkPath(K0.path)]}
\* The message arrives in one packet; later packets are empty.
MainDataPayloads(data) ==
    IF data = <<>>
    THEN {MkBlock(MaxLevel), MkEndorsement(MaxLevel), MkEndorsement(0),
          Delegation(Pkh(K0), Pkh(K0)), <<>>}
    ELSE {<<>>}
\* Reset levels: 0 and a payload that is no level.
ResetPayloads == {BigEndian32(0), <<0, 0, 0>>}

\* A device that has not signed and keeps its first record is asked for a
\* reset to a level with a reserved bit set.
ReservedReset ==
    /\ N_data = N_data_init
    /\ emitted = {}
    /\ main_ins_reset(BigEndian32(LEVEL_RESERVED_UNIT + 1))

\* One context is filled up to the capacity of the buffer, on a device that
\* has not signed yet.
MainFullSession ==
    /\ build = "main"
    /\ N_data = N_data_init
    /\ emitted = {}
    /\ operationContext.path = K0.path
    /\ \E n \in 0..(TEZOS_BUFSIZE \div MAX_APDU_SIZE) :
           operationContext.data = BigPackets(n)

NextMain ==
    \/ \E first \in MainFirstPackets : main_ins_sign(P1_FIRST, first.curve, first.buff)
    \/ \E p1 \in {P1_NEXT, P1_NEXT + P1_LAST_MARKER, 2}, p2 \in {0, 3} :
       \E buff \in MainDataPayloads(operationContext.data) : main_ins_sign(p1, p2, buff)
    \/ /\ MainFullSession
       /\ main_ins_sign(P1_NEXT, 0, BigPacket)
    \/ \E stack_junk \in BOOLEAN : bake_ok(stack_junk)
    \/ main_sign_ok
    \/ sign_cancel
    \/ \E buff \in ResetPayloads : main_ins_reset(buff)
    \/ ReservedReset
    \/ \E is_endorsement \in BOOLEAN : reset_ok(is_endorsement)
    \/ reset_cancel

Next == NextApdu \/ NextMain

Spec == Init /\ [][Next]_vars

\* The operator answers a pending prompt of apdu_sign.c: one of the confirm
\* callbacks or sign_reject.
OperatorAnswers == sign_ok \/ sign_reject

\* The builds of apdu_sign.c taking messages of one packet, under every
\* instruction and with the hash-only kind as well.
LiveInit == Init /\ build \in {"baking", "wallet"}

LiveNext ==
    \/ \E first \in FirstPackets :
         handle_apdu("INS_SIGN", P1_FIRST, first.curve, first.buff)
    \/ \E instruction \in Instructions,
          p1 \in {P1_NEXT + P1_LAST_MARKER, P1_HASH_ONLY_NEXT + P1_LAST_MARKER} :
       \E buff \in DataPayloads(build = "baking", 0, p1) :
         /\ G.packet_index = 0
         /\ handle_apdu(instruction, p1, 0, buff)
    \/ sign_ok
    \/ sign_reject
    \/ \E key \in BakingKeys, stack_junk \in BOOLEAN : AuthorizeBaking(key, stack_junk)
    \/ PowerCycle

\* The program with an operator who does not leave a prompt unanswered for
\* ever: the prompt suspends the command until one of its callbacks runs
\* (ui_prompt), and nothing else resumes it.
LiveSpec == LiveInit /\ [][LiveNext]_vars /\ WF_vars(OperatorAnswers)

(***************************************************************************)
(* The claims.                                                             *)
(***************************************************************************)
BakingRequest == last.kind \in {"block", "endorsement"}

\* The last step ran handle_apdu's completion on a block or an endorsement
\* in the baking build.
GuardedRequest ==
    /\ build = "baking"
    /\ last.op = "handle_apdu"
    /\ BakingRequest
    /\ last.steps # <<>>

AuthorizedKey(n) == [curve |-> n.curve, path |-> n.path]

\* The rule of the high-water mark as the specification has it.
LevelRule(n, level, kind) ==
    \/ level > n.highest_level
    \/ level = n.highest_level /\ kind = "endorsement" /\ ~n.had_endorsement

Produced == "sign" \in Range(last.steps)

\* C1: the device never sends a second block signature or a second
\* endorsement signature for a level, and never sends a block or endorsement
\* signature for a level below one it has signed.
C1_NoDoubleOrLowerSignature == ~last.again /\ ~last.lower

\* C2: a block / endorsement request that does not satisfy the rule (level
\* above the mark, or tied with it for a first endorsement) is rejected with
\* SecurityError and nothing is signed.
C2_GuardRejectsOutsideRule ==
    (GuardedRequest /\ ~LevelRule(last.pre, last.level, last.kind))
        => (last.status = "SecurityError" /\ ~Produced)

\* C3: no step lowers the persisted highest_level.
C3_HighestLevelMonotonic ==
    [][N_data'.highest_level >= N_data.highest_level]_vars

\* C4: in a block / endorsement command that writes the high-water mark, the
\* signature has been produced before the write.
C4_SignBeforeWrite ==
    BakingRequest
        => \A i \in DOMAIN last.steps :
               last.steps[i] = "write"
                   => \E j \in 1..(i - 1) : last.steps[j] = "sign"

\* C5: when power is lost in a block / endorsement command after its guard,
\* the mark stands at the level of the request only if the signature for it
\* was produced.
C5_CrashLeavesNoUnsignedMark ==
    (/\ BakingRequest
     /\ last.status = "PowerLoss"
     /\ N_data.highest_level = last.level
     /\ N_data # last.pre)
        => Produced

\* C6: once a block command has produced a signature for a level, power lost
\* or not, the record forbids a block at that level; and while the record
\* forbids a block at a level, restarts and further block requests at that
\* level produce no signature and leave it forbidden.  So the crashed attempt
\* and its retries produce at most one block signature for the level.
C6_Forbidden(level) == ~is_level_authorized(N_data, level, FALSE)
C6_RetryStep(level) ==
    \/ last'.op = "power_cycle"
    \/ last'.op = "handle_apdu" /\ last'.kind = "block" /\ last'.level = level
C6_BlockRetryNeverSignsTwice ==
    /\ []((GuardedRequest /\ last.kind = "block" /\ Produced)
            => C6_Forbidden(last.level))
    /\ [][\A level \in Levels :
            (build = "baking" /\ C6_Forbidden(level) /\ C6_RetryStep(level))
                => ("sign" \notin Range(last'.steps) /\ C6_Forbidden(level)')]_vars

\* A block retried after power was lost on it is rejected: the mark stands
\* at its level though no signature for that level ever left the device.
C6_Witness ==
    /\ GuardedRequest
    /\ last.kind = "block"
    /\ last.status = "SecurityError"
    /\ last.key = AuthorizedKey(N_data)
    /\ last.level = N_data.highest_level
    /\ last.level > 0
    /\ \A e \in emitted : e.level # last.level

\* C7: a block / endorsement request whose session key is not the
\* authorized key (other curve, other path length, other path element) is
\* rejected with SecurityError and nothing is signed, whatever its level.
C7_OtherKeyRejected ==
    (GuardedRequest /\ last.key # AuthorizedKey(last.pre))
        => (last.status = "SecurityError" /\ ~Produced)

\* The key differs in the curve alone and the level is above the mark.
C7_Witness ==
    /\ GuardedRequest
    /\ last.key.curve # last.pre.curve
    /\ last.key.path = last.pre.path
    /\ LevelRule(last.pre, last.level, last.kind)
    /\ is_valid_level(last.level)
    /\ last.status = "SecurityError"

\* C8: in the baking build an UNSAFE_OP gets the register-as-delegate prompt
\* only from the authorized key, with a valid parse and source = destination
\* = signing identity; from another key, or with source # destination, it is
\* rejected with SecurityError.
C8_SelfDelegationOnly ==
    (/\ build = "baking"
     /\ last.op = "handle_apdu"
     /\ last.kind = "unsafe_op"
     /\ last.steps # <<>>)
        => /\ last.status = "Pending"
                => /\ last.key = AuthorizedKey(last.pre)
                   /\ last.ops.is_valid
                   /\ last.ops.v.source = last.ops.v.signing
                   /\ last.ops.v.destination = last.ops.v.signing
           /\ (\/ last.key # AuthorizedKey(last.pre)
               \/ last.ops.is_valid /\ last.ops.v.source # last.ops.v.destination)
                => last.status = "SecurityError"

\* C9: after a block or endorsement at a valid level L is signed and the
\* command succeeds, the record is (L, the item was an endorsement), and it
\* forbids a block at L.
C9_RecordAfterSuccess ==
    (/\ BakingRequest
     /\ last.status = "OK"
     /\ Produced
     /\ is_valid_level(last.level))
        => /\ N_data.highest_level = last.level
           /\ N_data.had_endorsement = (last.kind = "endorsement")
           /\ ~is_level_authorized(N_data, last.level, FALSE)

\* The tie-break: an endorsement signed at the level the mark stood at.
C9_Witness ==
    /\ BakingRequest
    /\ last.status = "OK"
    /\ Produced
    /\ last.kind = "endorsement"
    /\ last.level = last.pre.highest_level
    /\ last.level > 0
    /\ ~last.pre.had_endorsement

AllKeys == Keys \cup BakingKeys \cup MainKeys \cup {NoKey}

\* C11: the authorized baking key changes only in a step in which the
\* operator confirmed an authorization (authorize_baking after the
\* authorize prompt, bake_ok after the bake prompt); the key of that step
\* then replaces the old one as a whole, so that exactly the confirmed
\* (curve, path) pair is authorized afterwards.  A rejected prompt and every
\* other command leave the key as it was.
C11_KeyChangesOnlyOnConfirmedAuthorization ==
    [][AuthorizedKey(N_data') # AuthorizedKey(N_data)
       => /\ last'.op \in {"authorize_baking", "bake_ok"}
          /\ AuthorizedKey(N_data') = last'.key
          /\ \A k \in AllKeys :
                is_path_authorized(N_data', k.curve, k.path) <=> k = last'.key]_vars

\* A confirmed bake prompt has replaced one authorized key by another.
C11_Witness ==
    /\ last.op = "bake_ok"
    /\ last.pre.path # <<>>
    /\ AuthorizedKey(last.pre) # AuthorizedKey(N_data)
    /\ AuthorizedKey(N_data) = last.key

\* C12: a block or endorsement request whose key is not the authorized one,
\* or whose level breaks the rule of the high-water mark, is answered with
\* SecurityError and never with a confirmation prompt.
C12_GuardFailureNeverPrompts ==
    (/\ BakingRequest
     /\ build \in {"baking", "main"}
     /\ last.op \in {"handle_apdu", "INS_SIGN"}
     /\ last.steps # <<>>
     /\ \/ last.key # AuthorizedKey(last.pre)
        \/ ~LevelRule(last.pre, last.level, last.kind))
    => (last.status = "SecurityError" /\ prompt = NoPrompt)

\* The confirm callbacks of apdu_sign.c.
ConfirmCallbacks == {"sign_with_hash_ok", "sign_without_hash_ok", "sign_unsafe_ok"}

\* The step resolved a pending prompt of apdu_sign.c.
C13_Confirmed == last'.op \in ConfirmCallbacks /\ last'.status = "OK"
C13_Rejected == last'.op = "sign_reject"

\* C13 as stated: a confirmation answers with a signature and destroys the
\* session, a rejection answers with a rejection status and no signature and
\* destroys the session, and after either the other cannot fire.
C13_ConfirmSignsRejectDoesNot ==
    [][/\ C13_Confirmed => last'.response.signed
       /\ C13_Rejected => last'.status = "Rejected" /\ last'.response = NoResponse
                          /\ emitted' = emitted
       /\ (C13_Confirmed \/ C13_Rejected)
          => prompt # NoPrompt /\ prompt' = NoPrompt /\ G' = clear_data]_vars

\* C13 with the hash-only shortcut: a confirmation answers with a signature,
\* or in the wallet build with the hash alone when the session was marked
\* hash-only and the prompt signs the hash.
C13_ConfirmSignsOrHashOnly ==
    [][/\ C13_Confirmed
          => IF build = "wallet" /\ G.hash_only /\ last'.op # "sign_unsafe_ok"
             THEN /\ ~last'.response.signed
                  /\ last'.response.final_hash = G.final_hash
                  /\ emitted' = emitted
             ELSE /\ last'.response.signed
                  /\ last'.response.key = G.key
       /\ C13_Rejected => last'.status = "Rejected" /\ last'.response = NoResponse
                          /\ emitted' = emitted
       /\ (C13_Confirmed \/ C13_Rejected)
          => /\ prompt # NoPrompt
             /\ last'.op \in ConfirmCallbacks => last'.op = prompt.ok
             /\ prompt' = NoPrompt
             /\ G' = clear_data]_vars

\* A prompt of a hash-only session was confirmed and answered with the hash.
C13_Witness ==
    /\ build = "wallet"
    /\ last.op = "sign_without_hash_ok"
    /\ last.status = "OK"
    /\ ~last.response.signed
    /\ last.response.final_hash # <<>>
    /\ G = clear_data
    /\ prompt = NoPrompt

\* The last step ran wallet_sign_complete on a session whose parse result
\* is invalid.
C14_InvalidParseCompleted ==
    /\ build = "wallet"
    /\ last.op = "handle_apdu"
    /\ last.steps # <<>>
    /\ ~last.ops.is_valid

\* In the wallet build a response that carries a hash or a signature leaves
\* only from a confirm callback on a pending prompt.
C14_ResponseOnlyAfterConfirm ==
    (build = "wallet" /\ last'.response # NoResponse)
    => (last'.op \in ConfirmCallbacks /\ prompt.ok = last'.op)

C15_InvalidBakingParse ==
    /\ BakingRequest
    /\ build = "baking"
    /\ last.op = "handle_apdu"
    /\ last.steps = <<>>

\* C15: in baking mode a block or endorsement whose structured parse is
\* invalid ends the command with SecurityError, with no prompt, no
\* signature and no change of the high-water mark.
C15_InvalidBakingParseIsSecurityError ==
    C15_InvalidBakingParse
    => /\ last.status = "SecurityError"
       /\ prompt = NoPrompt
       /\ ~Produced
       /\ N_data = last.pre

\* The step handed the classifier the first data packet of a session: a
\* data packet of a kind the build takes, under an instruction that parses,
\* on a session that a FIRST packet opened and that has no data yet.
C16_Classifying ==
    /\ build \in {"baking", "wallet"}
    /\ packet'.kind \in {P1_NEXT} \cup (IF build = "wallet" THEN {P1_HASH_ONLY_NEXT} ELSE {})
    /\ packet'.parsing
    /\ G.key.path # <<>>
    /\ G.packet_index = 0

\* The classifier accepted the packet: the session, or the record of the
\* command it completed or aborted later on, carries its discriminator.
C16_Classified ==
    \/ G'.magic_byte = packet'.magic /\ G'.magic_byte # MAGIC_BYTE_INVALID
    \/ last'.kind = ReqKind(packet'.magic) /\ last'.kind # "none"

\* The classifier refused the packet with ParseError.
C16_Refused ==
    /\ last'.status = "ParseError"
    /\ last'.kind = "none"
    /\ G' = clear_data

\* The discriminators the specification has each mode accept.
C16_Accepted(mode) ==
    IF mode = "baking"
    THEN {MAGIC_BYTE_BLOCK, MAGIC_BYTE_BAKING_OP, MAGIC_BYTE_UNSAFE_OP}
    ELSE {MAGIC_BYTE_UNSAFE_OP, MAGIC_BYTE_UNSAFE_OP2, MAGIC_BYTE_UNSAFE_OP3}

\* C16: the classifier accepts the first data packet when its discriminator
\* is BLOCK, CONSENSUS_OP or UNSAFE_OP in baking mode and UNSAFE_OP,
\* UNSAFE_OP_V2 or UNSAFE_OP_V3 in wallet mode, and refuses every other
\* discriminator with ParseError.
C16_ClassifierAcceptsPerMode ==
    [][C16_Classifying
       => IF packet'.magic \in C16_Accepted(build)
          THEN C16_Classified ELSE C16_Refused]_vars

\* The step handed handle_apdu a data packet on a session that had taken a
\* data packet before.
C17_LaterDataPacket ==
    /\ build \in {"baking", "wallet"}
    /\ packet'.kind \in {P1_NEXT} \cup (IF build = "wallet" THEN {P1_HASH_ONLY_NEXT} ELSE {})
    /\ G.key.path # <<>>
    /\ G.packet_index >= 1

\* C17: a data packet after the first never re-parses: in wallet mode it
\* leaves the parse result of the session invalid, in baking mode it is
\* refused with ParseError, so that a baking-mode signature only comes from
\* a message of a single data packet.
C17_LaterPacketInvalidatesOrFails ==
    [][/\ C17_LaterDataPacket
          => IF build = "baking"
             THEN last'.status = "ParseError" /\ G' = clear_data
             ELSE ~G'.maybe_ops.is_valid
       /\ (build = "baking" /\ "sign" \in Range(last'.steps))
          => G.packet_index = IF last'.op = "handle_apdu" THEN 0 ELSE 1]_vars

\* The step handed handle_apdu a data packet of a kind the build takes
\* while no FIRST packet had opened a session.
C18_NextWithoutFirst ==
    /\ build \in {"baking", "wallet"}
    /\ packet'.kind \in {P1_NEXT} \cup (IF build = "wallet" THEN {P1_HASH_ONLY_NEXT} ELSE {})
    /\ G.key.path = <<>>

C19_DataPacket ==
    /\ build \in {"baking", "wallet"}
    /\ packet'.kind \in {P1_NEXT} \cup (IF build = "wallet" THEN {P1_HASH_ONLY_NEXT} ELSE {})
    /\ G.key.path # <<>>

\* C19: the packet counter is 0 after every FIRST packet, goes up by exactly
\* 1 with each data packet that is accepted, never exceeds 255, and the
\* 256th data packet in a row fails with ParseError without taking the
\* counter further.
C19_PacketCounter ==
    [][/\ G.packet_index \in 0..PACKET_INDEX_MAX
       /\ G'.packet_index \in 0..PACKET_INDEX_MAX
       /\ (packet'.kind = P1_FIRST /\ packet'.accepted) => G'.packet_index = 0
       /\ (C19_DataPacket /\ packet'.accepted
             /\ (~packet'.is_last \/ last'.status = "Pending"))
          => G'.packet_index = G.packet_index + 1
       /\ (C19_DataPacket /\ ~packet'.accepted) => G'.packet_index = 0
       /\ (C19_DataPacket /\ G.packet_index = PACKET_INDEX_MAX)
          => /\ last'.status = "ParseError"
             /\ ~packet'.accepted
             /\ handle_apdu_next(G, <<>>, FALSE, FALSE, FALSE).g.packet_index
                    = PACKET_INDEX_MAX]_vars

\* The 256th data packet of a session has been refused with ParseError.
C19_Witness ==
    /\ packet.kind = P1_NEXT
    /\ packet.index = PACKET_INDEX_MAX
    /\ ~packet.accepted
    /\ last.status = "ParseError"
    /\ G.packet_index = 0

\* The hasher that absorbed the whole of bytes in one piece.
C20_OneShot(bytes) == b2b_final(b2b_update(NoHashState, bytes))

\* The step handed handle_apdu a data packet that it appended.
C20_Appended ==
    /\ build \in {"baking", "wallet"}
    /\ packet'.kind \in {P1_NEXT, P1_HASH_ONLY_NEXT}
    /\ packet'.accepted

\* C20: the digest depends on the concatenation of the payloads only, not
\* on the split.  A packet that is not the last adds its payload, once and
\* at the end, to the bytes absorbed or waiting; the last packet of a hashed
\* message leaves the hasher with all earlier bytes and its payload
\* absorbed, each once and in the order of arrival, and the final hash is
\* the digest of that stream; so every split of Stream ends with the digest
\* of Stream taken in one piece.
C20_ChunkInvariance ==
    [][/\ (C20_Appended /\ ~packet'.is_last)
          => Received(G') = Received(G) \o packet'.buff
       /\ (C20_Appended /\ packet'.is_last /\ packet'.parsing
             /\ last'.status = "Pending")
          => /\ G'.hash_state.absorbed = Received(G) \o packet'.buff
             /\ G'.final_hash = C20_OneShot(Received(G) \o packet'.buff)
       /\ (G'.final_hash # <<>> /\ Len(G'.hash_state.absorbed) = StreamLen)
          => G'.final_hash = C20_OneShot(Stream)]_vars

\* The message cut at the block size of the hasher has been finalised: the
\* second and last packet carried all that follows the first block.
C20_Witness ==
    /\ prompt # NoPrompt
    /\ G.packet_index = 2
    /\ packet.is_last
    /\ Len(packet.buff) = StreamLen - B2B_BLOCKBYTES
    /\ G.hash_state.absorbed = Stream
    /\ G.final_hash = C20_OneShot(Stream)

\* The bytes the session holds in its buffer.
BufferLength ==
    IF build = "main" THEN Len(operationContext.data) ELSE Len(G.message_data)

\* The step handed a data packet to a session whose buffer it would overrun
\* (in apdu_sign.c after the part already hashed has left the buffer).
C21_Overflowing ==
    \/ /\ build \in {"baking", "wallet"}
       /\ packet'.kind \in {P1_NEXT, P1_HASH_ONLY_NEXT}
       /\ ~packet'.parsing
       /\ G.key.path # <<>>
       /\ Len(G.message_data) + packet'.size > TEZOS_BUFSIZE
    \/ /\ build = "main"
       /\ last'.op = "INS_SIGN"
       /\ packet'.kind = P1_NEXT
       /\ Len(operationContext.data) + packet'.size > TEZOS_BUFSIZE

\* C21: the buffer never holds more than its capacity, and a packet that
\* would overrun it is refused with ParseError, none of its bytes appended.
C21_OverflowIsParseError ==
    [][/\ BufferLength <= TEZOS_BUFSIZE
       /\ BufferLength' <= TEZOS_BUFSIZE
       /\ C21_Overflowing
          => /\ last'.status = "ParseError"
             /\ BufferLength' <= BufferLength]_vars

ErrorStatus == {"ParseError", "WrongLength", "WrongParameter", "SecurityError",
                "MemoryError"}

C23_HashOnlyShortcut ==
    /\ build = "wallet"
    /\ G.hash_only
    /\ last'.op \in {"sign_with_hash_ok", "sign_without_hash_ok"}

\* C23: every step in which perform_signature builds a response leaves the
\* session cleared and no prompt pending; on the hash-only shortcut of the
\* signing application no signing step runs, nothing is signed and the
\* response is the final hash alone, and on the normal path the signing step
\* runs.
C23_FinalizerClearsSession ==
    [][(build \in {"baking", "wallet"} /\ last'.response # NoResponse)
       => /\ G' = clear_data
          /\ prompt' = NoPrompt
          /\ IF C23_HashOnlyShortcut
             THEN /\ "sign" \notin Range(last'.steps)
                  /\ last'.response = [final_hash |-> G.final_hash, signed |-> FALSE,
                                       key |-> NoKey, data |-> <<>>]
                  /\ G.final_hash # <<>>
                  /\ emitted' = emitted
             ELSE /\ "sign" \in Range(last'.steps)
                  /\ last'.response.signed]_vars

\* A hash-only session was confirmed at the prompt that would also return
\* the hash, and the answer is the hash with no signature.
C23_Witness ==
    /\ build = "wallet"
    /\ last.op = "sign_with_hash_ok"
    /\ last.status = "OK"
    /\ "sign" \notin Range(last.steps)
    /\ last.response.final_hash # <<>>
    /\ ~last.response.signed
    /\ G = clear_data

\* One of the top two bits of the 32-bit level is set.
C24_Reserved(level) == level >= LEVEL_RESERVED_UNIT

\* The last step was a reset confirmed for a level with a reserved bit set.
C24_InvalidReset ==
    /\ build = "main"
    /\ last.op = "reset_ok"
    /\ Len(operationContext.data) >= 4
    /\ C24_Reserved(READ_UNALIGNED_BIG_ENDIAN(operationContext.data, 1))

\* C24: a block or endorsement whose level has a reserved bit set is
\* rejected by the guard with SecurityError, unsigned and with the record
\* untouched, whatever mark and endorsement flag the record holds; the
\* persisted highest_level never has a reserved bit set, no signature was
\* ever produced for such a level, and a reset confirmed for such a level
\* leaves the record as it was.
C24_ReservedLevelRejected ==
    /\ [](/\ ~C24_Reserved(N_data.highest_level)
          /\ \A e \in emitted : ~C24_Reserved(e.level)
          /\ (GuardedRequest /\ C24_Reserved(last.level))
                => /\ last.status = "SecurityError"
                   /\ ~Produced
                   /\ N_data = last.pre)
    /\ [][C24_InvalidReset' => N_data' = N_data]_vars

\* An endorsement at a level with a reserved bit set, numerically above the
\* mark, from the authorized key and with no endorsement recorded, was
\* rejected.
C24_Witness ==
    /\ GuardedRequest
    /\ last.kind = "endorsement"
    /\ C24_Reserved(last.level)
    /\ last.level > last.pre.highest_level
    /\ ~last.pre.had_endorsement
    /\ last.key = AuthorizedKey(last.pre)
    /\ last.status = "SecurityError"

\* A reset to a level with a reserved bit set was confirmed.
C24_ResetWitness == C24_InvalidReset /\ last.status = "OK"

\* A FIRST packet to handle_apdu: when its path is readable the command
\* succeeds with an empty response and the session is the cleared one with
\* the key of the packet; the record, the signatures produced and the
\* prompt are untouched.
C25_ApduFirst ==
    (build \in {"baking", "wallet"} /\ packet'.kind = P1_FIRST /\ packet'.path # <<>>)
        => /\ last'.status = "OK"
           /\ last'.response = NoResponse
           /\ G' = [clear_data EXCEPT
                       !.key = [curve |-> packet'.curve, path |-> packet'.path]]
           /\ UNCHANGED <<N_data, emitted, prompt>>

\* A FIRST packet to main.c's INS_SIGN: when its path is readable the
\* command succeeds and the context is empty with the path and the curve of
\* the packet.
C25_MainFirst ==
    (build = "main" /\ packet'.kind = P1_FIRST /\ packet'.path # <<>>)
        => /\ last'.status = "OK"
           /\ last'.response = NoResponse
           /\ operationContext' = [path |-> packet'.path, curve |-> packet'.curve,
                                   data |-> <<>>]
           /\ UNCHANGED <<N_data, emitted, prompt>>

\* C25: a FIRST packet, whatever the session holds, discards the session in
\* flight: afterwards the session holds the path and the curve of the
\* packet and nothing else, and the response is an empty success.
C25_FirstDiscardsSession == [][C25_ApduFirst /\ C25_MainFirst]_vars

\* The kinds of packet the build recognizes.
C26_Kinds ==
    IF build = "wallet" THEN {P1_FIRST, P1_NEXT, P1_HASH_ONLY_NEXT}
    ELSE {P1_FIRST, P1_NEXT}

\* The step is handle_apdu on a packet of a kind the build does not
\* recognize.
C26_UnknownKind ==
    /\ build \in {"baking", "wallet"}
    /\ packet' # NoPacket
    /\ packet'.kind \notin C26_Kinds

C27_Templates ==
    {"proposal", "ballot", "origination_delegatable", "origination_delegatable_any",
     "origination_fixed", "origination_undelegatable", "delegation", "withdrawal",
     "transaction", "reveal", "parse_fail"}

\* Template t is one for the parsed operation v: the kind of operation, and
\* for an origination the delegatable flag and the presence of a delegate,
\* for a delegation the presence of a destination; the raw hash is what is
\* left for an origination that cannot be spent.
C27_Matches(t, v) ==
    LET origination == v.tag \in {OPERATION_TAG_ATHENS_ORIGINATION,
                                  OPERATION_TAG_BABYLON_ORIGINATION}
        spendable == v.flags % 2 = 1
        delegatable == (v.flags \div 2) % 2 = 1
        delegation == v.tag \in {OPERATION_TAG_ATHENS_DELEGATION,
                                 OPERATION_TAG_BABYLON_DELEGATION}
    IN  \/ t = "proposal" /\ v.tag = OPERATION_TAG_PROPOSAL
        \/ t = "ballot" /\ v.tag = OPERATION_TAG_BALLOT
        \/ t = "origination_delegatable"
              /\ origination /\ spendable /\ delegatable /\ v.delegate # 0
        \/ t = "origination_delegatable_any"
              /\ origination /\ spendable /\ delegatable /\ v.delegate = 0
        \/ t = "origination_fixed"
              /\ origination /\ spendable /\ ~delegatable /\ v.delegate # 0
        \/ t = "origination_undelegatable"
              /\ origination /\ spendable /\ ~delegatable /\ v.delegate = 0
        \/ t = "parse_fail" /\ origination /\ ~spendable
        \/ t = "delegation" /\ delegation /\ v.destination # 0
        \/ t = "withdrawal" /\ delegation /\ v.destination = 0
        \/ t = "transaction" /\ v.tag \in {OPERATION_TAG_ATHENS_TRANSACTION,
                                           OPERATION_TAG_BABYLON_TRANSACTION}
        \/ t = "reveal" /\ v.tag = OPERATION_TAG_NONE

\* The step is handle_apdu taking the last packet of a message without an
\* exception before the completion call.
C27_Completing ==
    /\ build \in {"baking", "wallet"}
    /\ last'.op = "handle_apdu"
    /\ packet'.is_last
    /\ packet'.accepted

\* C27: when a command suspends on a prompt, no prompt was pending before
\* and the prompt is the one template of its case: in the signing
\* application the pre-hashed prompt under INS_SIGN_UNSAFE, the one template
\* that matches the parsed operation when the parse result is valid, and the
\* raw-hash prompt when it is not; in the baking application the
\* register-as-delegate prompt, for a valid delegation.  And a message of the
\* signing application that is an operation never completes without a
\* prompt.
C27_ExactlyOneTemplate ==
    [][/\ (build \in {"baking", "wallet"} /\ last'.status = "Pending")
          => /\ C27_Completing
             /\ prompt = NoPrompt
             /\ IF build = "baking"
                THEN /\ prompt'.kind = "register_delegate"
                     /\ G'.maybe_ops.is_valid
                     /\ G'.maybe_ops.v.tag \in {OPERATION_TAG_ATHENS_DELEGATION,
                                                OPERATION_TAG_BABYLON_DELEGATION}
                ELSE IF ~packet'.parsing THEN prompt'.kind = "prehashed"
                ELSE IF G'.maybe_ops.is_valid
                THEN {t \in C27_Templates : C27_Matches(t, G'.maybe_ops.v)}
                         = {prompt'.kind}
                ELSE prompt'.kind = "parse_fail"
       /\ (C27_Completing /\ build = "wallet"
           /\ (~packet'.parsing \/ last'.kind = "unsafe_op"))
          => last'.status = "Pending" /\ prompt'.kind # "none"]_vars

\* An origination that may be spent, is delegatable and names a delegate
\* waits on its own template.
C27_Witness ==
    /\ build = "wallet"
    /\ last.status = "Pending"
    /\ prompt.kind = "origination_delegatable"
    /\ G.maybe_ops.v.delegate # 0

\* The step is a prompt confirmed to the end, or the baking application
\* signing a block or an endorsement straight from the command.
C28_Finalized ==
    /\ build \in {"baking", "wallet"}
    /\ last'.response # NoResponse

\* The response of a finalized step is right for a session with key, final
\* hash digest and buffer message_data: the signature is over the digest when
\* on_hash and over the buffer otherwise, with the session's key, and the
\* digest goes before it exactly when send_hash and on_hash.
C28_ResponseFor(key, digest, message_data, on_hash, send_hash) ==
    /\ last'.response.signed
    /\ last'.response.key = key
    /\ last'.response.data = IF on_hash THEN digest ELSE message_data
    /\ last'.response.final_hash = IF send_hash /\ on_hash THEN digest ELSE <<>>
    /\ on_hash => digest # <<>>

\* The response of a finalized step as perform_signature's general path
\* builds it: after a prompt, from the session the prompt waited on and the
\* confirm callback; without a prompt, from the one packet of the block or
\* endorsement and the instruction.
C28_SignedResponse ==
    IF last'.op \in ConfirmCallbacks
    THEN C28_ResponseFor(G.key, G.final_hash, G.message_data,
                         last'.op # "sign_unsafe_ok", last'.op = "sign_with_hash_ok")
    ELSE C28_ResponseFor(G.key, C20_OneShot(packet'.buff), <<>>, TRUE, packet'.with_hash)

C28_HashThenSignatureOnHashedMessages ==
    [][C28_Finalized
       => IF C23_HashOnlyShortcut
          THEN ~last'.response.signed /\ last'.response.final_hash = G.final_hash
          ELSE IF last'.op \in ConfirmCallbacks \/ packet'.parsing
          THEN C28_SignedResponse
          ELSE /\ last'.response.signed
               /\ last'.response.key = G.key
               /\ last'.response.data = clear_data.final_hash]_vars

\* The baking application signed a block whose last packet came under
\* INS_SIGN_UNSAFE: the signature is over the hash field as clear_data left
\* it.
C28_UncomputedHashSigned ==
    /\ build = "baking"
    /\ last.op = "handle_apdu"
    /\ last.kind = "block"
    /\ last.response.signed
    /\ last.response.data = clear_data.final_hash
    /\ ~packet.parsing

\* A message taken under INS_SIGN_UNSAFE was confirmed and signed as the
\* buffer held it, and no hash went out.
C28_Witness ==
    /\ build = "wallet"
    /\ last.op = "sign_unsafe_ok"
    /\ last.response.signed
    /\ last.response.data # <<>>
    /\ last.response.final_hash = <<>>
    /\ last.response.key = K0

\* C29: no command ends with MemoryError; the buffer the hasher walks over
\* never holds more than its capacity, so the offset of the hasher's loop
\* stays inside it; and the register-as-delegate prompt waits only on a
\* session whose parse result is valid.
C29_MemoryErrorUnreachable ==
    /\ last.status # "MemoryError"
    /\ Len(G.message_data) <= TEZOS_BUFSIZE
    /\ prompt.kind = "register_delegate" => G.maybe_ops.is_valid

\* The hasher took a buffer that could not hold another packet, under a
\* hashing instruction, and went through it without an exception.
C29_Witness ==
    /\ build = "wallet"
    /\ packet.parsing
    /\ packet.accepted
    /\ packet.index >= TEZOS_BUFSIZE \div MAX_APDU_SIZE
    /\ Len(G.hash_state.absorbed) + B2B_BLOCKBYTES > 4 * MAX_APDU_SIZE
    /\ last.status = "OK"

\* The names of the steps in which the operator answers a prompt of
\* apdu_sign.c.
C30_Answers == ConfirmCallbacks \cup {"sign_reject"}

\* The device is idle: no prompt is pending and the session is cleared.
C30_Idle == prompt = NoPrompt /\ G = clear_data

\* In the builds of apdu_sign.c, every step taken while a prompt is pending
\* is the operator's answer or the loss of power, and ends the prompt with
\* the session cleared.
C30_NoTimeout ==
    [][(build \in {"baking", "wallet"} /\ prompt # NoPrompt)
       => /\ last'.op \in C30_Answers \cup {"power_cycle"}
          /\ last'.op \in ConfirmCallbacks => last'.op = prompt.ok
          /\ C30_Idle']_vars

\* C30: while a prompt is pending the only steps are the operator's answer
\* (the confirm callback of the prompt, or the rejection) and the loss of
\* power, so that without them the session and the record stay as they are;
\* each of them ends the prompt and leaves the session cleared; and with an
\* operator who eventually answers, every pending prompt leads to the idle
\* device with the session cleared.
C30_PendingUntilAnswered ==
    /\ C30_NoTimeout
    /\ (prompt # NoPrompt) ~> C30_Idle

\* The register-as-delegate prompt of the baking application was answered
\* with a confirmation and the device is idle again.
C30_Witness ==
    /\ build = "baking"
    /\ last.op \in ConfirmCallbacks
    /\ last.kind = "unsafe_op"
    /\ last.status = "OK"
    /\ C30_Idle

(***************************************************************************)
(* C31                                                                     *)
(***************************************************************************)
\* An authorize step that took a key (apdu_sign.c's build).
C31_Authorized ==
    /\ last'.op = "authorize_baking"
    /\ Len(last'.key.path) \in 1..MAX_BIP32_PATH

\* The half of C31 that the code keeps: authorize_baking copies
\* highest_level into the record it writes.
C31_AuthorizeKeepsHighestLevel ==
    [][C31_Authorized => N_data'.highest_level = N_data.highest_level]_vars

\* C31: an authorize action changes only the authorized key; the persisted
\* highest_level and had_endorsement after it equal their values before it.
C31_AuthorizeChangesOnlyKey ==
    [][C31_Authorized
         => /\ N_data'.highest_level = N_data.highest_level
            /\ N_data'.had_endorsement = N_data.had_endorsement]_vars

\* An authorize step has written had_endorsement = false over a record that
\* had the endorsement of its level signed.
C31_SlotReopened ==
    /\ last.op = "authorize_baking"
    /\ last.pre.had_endorsement
    /\ ~N_data.had_endorsement
    /\ [kind |-> "endorsement", level |-> N_data.highest_level] \in emitted

\* The endorsement of a level is signed a second time, the record saying
\* that none was signed at that level.
C31_EndorsedTwice ==
    /\ last.kind = "endorsement"
    /\ last.again
    /\ last.level = last.pre.highest_level
    /\ ~last.pre.had_endorsement

(***************************************************************************)
(* C32                                                                     *)
(***************************************************************************)
\* handle_apdu of the baking build has taken the LAST packet of a block or
\* an endorsement and has called baking_sign_complete on it.
C32_BakingLast ==
    /\ build = "baking"
    /\ last'.op = "handle_apdu"
    /\ packet'.kind = P1_NEXT
    /\ packet'.is_last
    /\ packet'.accepted
    /\ last'.kind \in {"block", "endorsement"}

\* The guard of that message on the record the step met: the session key is
\* the authorized key and the level is above the mark, or tied with it for
\* the first endorsement.
C32_GuardPasses ==
    /\ last'.key = [curve |-> N_data.curve, path |-> N_data.path]
    /\ Len(N_data.path) > 0
    /\ last'.level < LEVEL_RESERVED_UNIT
    /\ \/ last'.level > N_data.highest_level
       \/ last'.kind = "endorsement" /\ ~N_data.had_endorsement

\* The step has signed and answered: mark written, signature sent, session
\* cleared, nothing pending.
C32_SignedAtOnce ==
    /\ last'.status = "OK"
    /\ last'.steps = <<"guard", "write", "sign", "send">>
    /\ last'.response.signed
    /\ last'.response.key = last'.key
    /\ G' = clear_data
    /\ prompt' = NoPrompt

\* A session of the baking build waits for the operator.
C32_Suspended == build = "baking" /\ prompt # NoPrompt

\* C32: in baking mode a block or endorsement whose guard passes is signed
\* immediately while handling the LAST packet, with no confirmation prompt
\* and no suspension (one whose guard fails is refused, with no prompt
\* either); the self-delegation UNSAFE_OP is the only baking-mode signing
\* path that suspends for operator confirmation.
C32_BakingSignsWithoutPrompt ==
    [][/\ (C32_BakingLast /\ C32_GuardPasses)
          => (C32_SignedAtOnce \/ last'.status = "PowerLoss")
       /\ (C32_BakingLast /\ ~C32_GuardPasses)
          => (last'.status = "SecurityError" /\ prompt' = NoPrompt
              /\ N_data' = N_data /\ emitted' = emitted)
       /\ C32_Suspended'
          => /\ prompt'.kind = "register_delegate"
             /\ prompt'.ok \in {"sign_with_hash_ok", "sign_without_hash_ok"}
             /\ G'.magic_byte = MAGIC_BYTE_UNSAFE_OP
             /\ G'.maybe_ops.is_valid
             /\ G'.maybe_ops.v.source = G'.maybe_ops.v.signing
             /\ G'.maybe_ops.v.destination = G'.maybe_ops.v.signing
             /\ G'.key = [curve |-> N_data'.curve, path |-> N_data'.path]]_vars

\* An endorsement has been signed by the step that took its LAST packet ...
C32_Witness ==
    /\ build = "baking"
    /\ last.op = "handle_apdu"
    /\ packet.is_last
    /\ last.kind = "endorsement"
    /\ last.status = "OK"
    /\ last.steps = <<"guard", "write", "sign", "send">>
    /\ prompt = NoPrompt

\* ... and a self-delegation waits for the operator.
C32_SuspendedWitness ==
    /\ C32_Suspended
    /\ last.op = "handle_apdu"
    /\ last.kind = "unsafe_op"
    /\ last.status = "Pending"

(***************************************************************************)
(* C33                                                                     *)
(***************************************************************************)
\* No baking key has been authorized: the persisted path_length is 0.
C33_NoKey(n) == Len(n.path) = 0

\* The step has made a signature on a device that bakes, the record it met
\* having no key; an authorize that ran in the step itself (bake_ok) counts
\* as an authorize action that has succeeded.
C33_SignedWithoutKey ==
    /\ build \in {"baking", "main"}
    /\ "sign" \in Range(last.steps)
    /\ last.kind \in {"block", "endorsement", "unsafe_op"}
    /\ C33_NoKey(last.pre)
    /\ "authorize" \notin Range(last.steps)

\* C33: while no baking key has been authorized (persisted path_length = 0)
\* the key check is false for every session key, so baking mode signs no
\* block, no endorsement and no self-delegation until an authorize action
\* has succeeded.
C33_NoSignatureBeforeAuthorize ==
    /\ C33_NoKey(N_data)
       => \A key \in Keys \cup {NoKey} : ~is_path_authorized(N_data, key.curve, key.path)
    /\ ~C33_SignedWithoutKey

\* What holds of C33: the baking build of apdu_sign.c signs nothing and
\* prompts for nothing while no key is authorized, and main.c signs no
\* block and no endorsement.
C33_NoBakingSignatureBeforeAuthorize ==
    /\ C33_NoKey(N_data)
       => \A key \in Keys \cup {NoKey} : ~is_path_authorized(N_data, key.curve, key.path)
    /\ C33_SignedWithoutKey => (build = "main" /\ last.kind = "unsafe_op")
    /\ (build = "baking" /\ C33_NoKey(N_data)) => (prompt = NoPrompt /\ emitted = {})

\* The baking build has refused a block, an endorsement or a
\* self-delegation of a session key because no key is authorized.
C33_Refused ==
    /\ build = "baking"
    /\ C33_NoKey(N_data)
    /\ last.op = "handle_apdu"
    /\ packet.is_last
    /\ last.status = "SecurityError"
    /\ Len(last.key.path) > 0

\* main.c has signed a self-delegation with no key authorized.
C33_MainSignedDelegation ==
    /\ C33_SignedWithoutKey
    /\ build = "main"
    /\ last.status = "OK"
    /\ C33_NoKey(N_data)

(***************************************************************************)
(* C34                                                                     *)
(***************************************************************************)
\* What is left of len pending bytes when whole blocks are taken while more
\* than one block is pending: a remainder of exactly one block stays.
C34_Pending(len) ==
    IF len > B2B_BLOCKBYTES THEN ((len - 1) % B2B_BLOCKBYTES) + 1 ELSE len

\* The step handed handle_apdu a data packet under an instruction that
\* hashes, and the packet was appended without ending the message.
C34_HashedPacket ==
    /\ build \in {"baking", "wallet"}
    /\ packet'.kind \in {P1_NEXT, P1_HASH_ONLY_NEXT}
    /\ packet'.parsing
    /\ packet'.accepted
    /\ ~packet'.is_last

\* The wallet is handed, under an instruction that hashes, a data packet
\* that is not the first of an open session and that nothing but the
\* capacity of the buffer could have refused.
C34_LaterWalletPacket ==
    /\ build = "wallet"
    /\ last'.op = "handle_apdu"
    /\ packet'.kind \in {P1_NEXT, P1_HASH_ONLY_NEXT}
    /\ packet'.parsing
    /\ G.key.path # <<>>
    /\ G.packet_index \in 1..(PACKET_INDEX_MAX - 1)
    /\ packet'.size <= MAX_APDU_SIZE

\* C34: after every hasher update call the pending buffer length is at most
\* one block (128 bytes, a remainder of exactly 128 being left unabsorbed)
\* and the number of bytes absorbed so far is a multiple of 128; hence in
\* hashed instructions the buffered length before a packet is appended is
\* at most 128 and the capacity-overflow ParseError is reachable only in
\* the unhashed (unsafe) instruction.
C34_PendingAtMostOneBlock ==
    [][/\ C34_HashedPacket
          => /\ Len(G'.message_data)
                  = C34_Pending(Len(G.message_data)) + packet'.size
             /\ Len(G'.message_data) - packet'.size <= B2B_BLOCKBYTES
             /\ Len(G'.hash_state.absorbed)
                  = Len(G.hash_state.absorbed) + Len(G.message_data)
                    - C34_Pending(Len(G.message_data))
             /\ Len(G'.message_data) <= B2B_BLOCKBYTES + MAX_APDU_SIZE
       /\ (build \in {"baking", "wallet"} /\ G'.final_hash = <<>>)
          => Len(G'.hash_state.absorbed) % B2B_BLOCKBYTES = 0
       /\ C34_LaterWalletPacket => packet'.accepted]_vars

\* A packet under a hashing instruction met exactly one block waiting and
\* nothing absorbed: the block is still in the buffer, ahead of the
\* payload, and the hasher has taken nothing.
C34_Witness ==
    /\ build = "wallet"
    /\ packet.parsing
    /\ packet.accepted
    /\ ~packet.is_last
    /\ packet.index = 1
    /\ packet.size > 0
    /\ Len(G.message_data) = B2B_BLOCKBYTES + packet.size
    /\ G.hash_state.absorbed = <<>>

\* A full packet under a hashing instruction met the buffer filled to 920
\* bytes and was appended: seven blocks absorbed, 24 bytes and the payload
\* waiting.
C34_FullBufferWitness ==
    /\ build = "wallet"
    /\ packet.parsing
    /\ packet.accepted
    /\ packet.size = MAX_APDU_SIZE
    /\ ~packet.is_last
    /\ Len(G.hash_state.absorbed) = 7 * B2B_BLOCKBYTES
    /\ Len(G.message_data) = 24 + MAX_APDU_SIZE

\* The same packet under the instruction that does not hash is refused.
C34_UnsafeOverflowWitness ==
    /\ build = "wallet"
    /\ last.op = "handle_apdu"
    /\ last.status = "ParseError"
    /\ ~packet.parsing
    /\ ~packet.accepted
    /\ packet.size = MAX_APDU_SIZE
    /\ packet.index = 4

====
